---- MODULE Spec2Model ----
(***************************************************************************)
(* A model of the OSC99 codec (OscMessage.c, OscBundle.c, OscPacket.c,     *)
(* OscSlip.c).  Bytes are the integers 0..255.  A C buffer with its length *)
(* field is a sequence: oscAddressPattern with oscAddressPatternLength is  *)
(* the sequence oscAddressPattern, and so on; C indices are 0-based and    *)
(* are kept 0-based in the state (element i of buffer s is s[i + 1]).      *)
(* An operator that models a C function returns a record holding the      *)
(* function's return value (err) and the objects it wrote.                 *)
(***************************************************************************)
EXTENDS Integers, Sequences, FiniteSets, TLC

VARIABLES
    transportSize,  \* the value of MAX_TRANSPORT_SIZE the build was compiled with
    oscMessage,     \* the OscMessage under construction
    added,          \* the arguments appended successfully, in order
    lastError,      \* the return value of the last library call
    wire,           \* result of the last OscMessageToCharArray
    parsed,         \* the OscMessage filled by OscMessageInitialiseFromCharArray
    got,            \* the arguments read from parsed, in order
    slip,           \* the SLIP encoder / decoder harness
    pkt             \* the bundle / packet / visitor harness

vars == <<transportSize, oscMessage, added, lastError, wire, parsed,
          got, slip, pkt>>

--------------------------------------------------------------------------
(* Sizes of the model.                                                    *)

\* MAX_TRANSPORT_SIZE / 4 in the specification of the message codec
MsgTransportWords == 6
\* MAX_TRANSPORT_SIZE in the specification of the SLIP framer
SlipTransportSize == 4
\* MAX_TRANSPORT_SIZE / 4 in the specification of bundles and packets
PktTransportWords == 15

--------------------------------------------------------------------------
(* Character codes and compile-time constants.                            *)

OscContentsTypeMessage == 47        \* '/'
OscContentsTypeBundle == 35         \* '#'
Comma == 44                         \* ','

OscTypeTagInt32 == 105              \* 'i'
OscTypeTagFloat32 == 102            \* 'f'
OscTypeTagString == 115             \* 's'
OscTypeTagBlob == 98                \* 'b'
OscTypeTagInt64 == 104              \* 'h'
OscTypeTagTimeTag == 116            \* 't'
OscTypeTagDouble == 100             \* 'd'
OscTypeTagAlternateString == 83     \* 'S'
OscTypeTagCharacter == 99           \* 'c'
OscTypeTagRgbaColour == 114         \* 'r'
OscTypeTagMidiMessage == 109        \* 'm'
OscTypeTagTrue == 84                \* 'T'
OscTypeTagFalse == 70               \* 'F'
OscTypeTagNil == 78                 \* 'N'
OscTypeTagInfinitum == 73           \* 'I'
OscTypeTagBeginArray == 91          \* '['
OscTypeTagEndArray == 93            \* ']'

SizeofOscArgument32 == 4
SizeofOscArgument64 == 8

MAX_TRANSPORT_SIZE == transportSize
MAX_OSC_MESSAGE_SIZE == MAX_TRANSPORT_SIZE
MIN_OSC_MESSAGE_SIZE == 8           \* sizeof("/\0\0\0,\0\0")
MAX_OSC_ADDRESS_PATTERN_LENGTH == 3
MAX_NUMBER_OF_ARGUMENTS == 2
MAX_OSC_TYPE_TAG_STRING_LENGTH == 1 + MAX_NUMBER_OF_ARGUMENTS
MAX_ARGUMENTS_SIZE ==
    MAX_OSC_MESSAGE_SIZE - (MAX_OSC_ADDRESS_PATTERN_LENGTH + 4)
                         - (MAX_OSC_TYPE_TAG_STRING_LENGTH + 4)

--------------------------------------------------------------------------
(* Primitives.                                                            *)

\* element i (0-based) of buffer s
At(s, i) == s[i + 1]

\* the bytes of the value stored least significant byte first
C16_Int32BytesLittleEndian(v) ==
    << v % 256, (v \div 256) % 256, (v \div 65536) % 256, (v \div 16777216) % 256 >>

\* the bytes byte3, byte2, byte1, byte0 of a 32-bit two's complement value
Int32Bytes(v) ==
    << (v \div 16777216) % 256, (v \div 65536) % 256, (v \div 256) % 256, v % 256 >>

\* the int32 member of an OscArgument32 whose bytes were filled big-endian first
Int32FromBytes(b3, b2, b1, b0) ==
    (IF b3 >= 128 THEN b3 - 256 ELSE b3) * 16777216 + b2 * 65536 + b1 * 256 + b0

\* a byteStruct <<byte0, ..., byteN>> written most significant byte first
RECURSIVE BigEndian(_)
BigEndian(byteStruct) ==
    IF byteStruct = <<>> THEN <<>>
    ELSE Append(BigEndian(Tail(byteStruct)), Head(byteStruct))

\* bytes read most significant first, stored back into byte0..byteN
FromBigEndian(bytes) == BigEndian(bytes)

\* a termination that stores the null and no padding
C17_TerminateWithoutPadding(oscString, maxOscStringSize) ==
    IF Len(oscString) >= maxOscStringSize
    THEN [err |-> 1, str |-> oscString]
    ELSE [err |-> 0, str |-> Append(oscString, 0)]

\* a termination that does not look at the size it must not exceed
C23_TerminateUnchecked(oscString, maxOscStringSize) ==
    [err |-> 0,
     str |-> oscString \o [i \in 1 .. 4 - (Len(oscString) % 4) |-> 0]]

RECURSIVE TerminateOscString(_, _)
TerminateOscString(oscString, maxOscStringSize) ==
    IF Len(oscString) >= maxOscStringSize
    THEN [err |-> 1, str |-> oscString]
    ELSE LET t == Append(oscString, 0)
         IN  IF Len(t) % 4 # 0
             THEN TerminateOscString(t, maxOscStringSize)
             ELSE [err |-> 0, str |-> t]

--------------------------------------------------------------------------
(* OscMessage.c: message construction.                                    *)

oscAddressPatternLength(m) == Len(m.oscAddressPattern)
oscTypeTagStringLength(m) == Len(m.oscTypeTagString)
argumentsSize(m) == Len(m.arguments)

\* residue is the byte found where the library never wrote (the structure is
\* an uninitialised automatic or static object before OscMessageInitialise).
BlankMessage(residue) ==
    [ oscAddressPattern |-> <<>>,
      oscTypeTagString |-> <<Comma>>,
      arguments |-> <<>>,
      oscTypeTagStringIndex |-> 1,
      argumentsIndex |-> 0,
      residue |-> residue ]

OscMessageAppendAddressPattern(m, appendedParts) ==
    IF appendedParts = <<>> \/ Head(appendedParts) # OscContentsTypeMessage
    THEN [err |-> 1, msg |-> m]
    ELSE LET room == MAX_OSC_ADDRESS_PATTERN_LENGTH - oscAddressPatternLength(m)
         IN  IF Len(appendedParts) > room
             THEN [err |-> 1,
                   msg |-> [m EXCEPT !.oscAddressPattern =
                                @ \o SubSeq(appendedParts, 1, room)]]
             ELSE [err |-> 0,
                   msg |-> [m EXCEPT !.oscAddressPattern = @ \o appendedParts]]

OscMessageSetAddressPattern(m, oscAddressPattern) ==
    OscMessageAppendAddressPattern([m EXCEPT !.oscAddressPattern = <<>>],
                                   oscAddressPattern)

OscMessageInitialise(residue, oscAddressPattern) ==
    IF oscAddressPattern # <<>>
    THEN OscMessageSetAddressPattern(BlankMessage(residue), oscAddressPattern)
    ELSE [err |-> 0, msg |-> BlankMessage(residue)]

\* a test that lets the type tag string grow by one tag more
C18_TooManyArgumentsByLength(m) ==
    oscTypeTagStringLength(m) > MAX_NUMBER_OF_ARGUMENTS + 1

\* "too many arguments" test shared by every OscMessageAdd function
TooManyArguments(m) == oscTypeTagStringLength(m) > MAX_NUMBER_OF_ARGUMENTS

\* "message full" test of the fixed-size OscMessageAdd functions
MessageFull(m, size) == argumentsSize(m) + size > MAX_ARGUMENTS_SIZE

AppendTypeTag(m, tag) == [m EXCEPT !.oscTypeTagString = Append(@, tag)]

\* an OscMessageAdd function that stores the type tag before it tests the
\* room left for the argument
C13_AddFixedSizeTagFirst(m, tag, bytes) ==
    IF TooManyArguments(m) THEN [err |-> 1, msg |-> m]
    ELSE IF MessageFull(m, Len(bytes))
    THEN [err |-> 1, msg |-> AppendTypeTag(m, tag)]
    ELSE [err |-> 0,
          msg |-> [AppendTypeTag(m, tag) EXCEPT !.arguments = @ \o bytes]]

\* body shared by the OscMessageAdd functions of fixed-size arguments:
\* bytes are the argument's bytes in the order written
AddFixedSize(m, tag, bytes) ==
    IF TooManyArguments(m) THEN [err |-> 1, msg |-> m]
    ELSE IF MessageFull(m, Len(bytes)) THEN [err |-> 1, msg |-> m]
    ELSE [err |-> 0,
          msg |-> [AppendTypeTag(m, tag) EXCEPT !.arguments = @ \o bytes]]

\* body shared by the OscMessageAdd functions of arguments without payload
AddTagOnly(m, tag) ==
    IF TooManyArguments(m) THEN [err |-> 1, msg |-> m]
    ELSE [err |-> 0, msg |-> AppendTypeTag(m, tag)]

OscMessageAddInt32(m, int32) == AddFixedSize(m, OscTypeTagInt32, Int32Bytes(int32))
OscMessageAddFloat32(m, float32) ==
    AddFixedSize(m, OscTypeTagFloat32, BigEndian(float32))

\* an OscMessageAddString that stores the characters without null or padding
C24_AddStringUnterminated(m, string) ==
    IF TooManyArguments(m) THEN [err |-> 1, msg |-> m]
    ELSE IF argumentsSize(m) + Len(string) > MAX_ARGUMENTS_SIZE
    THEN [err |-> 1, msg |-> m]
    ELSE [err |-> 0,
          msg |-> [AppendTypeTag(m, OscTypeTagString)
                      EXCEPT !.arguments = @ \o string]]

OscMessageAddString(m, string) ==
    IF TooManyArguments(m) THEN [err |-> 1, msg |-> m]
    ELSE IF argumentsSize(m) + Len(string) > MAX_ARGUMENTS_SIZE
    THEN [err |-> 1, msg |-> m]
    ELSE LET t == TerminateOscString(m.arguments \o string, MAX_ARGUMENTS_SIZE)
         IN  IF t.err # 0 THEN [err |-> 1, msg |-> m]
             ELSE [err |-> 0,
                   msg |-> [AppendTypeTag(m, OscTypeTagString)
                               EXCEPT !.arguments = t.str]]

\* the padding loop of OscMessageAddBlob
RECURSIVE PadBlob(_)
PadBlob(arguments) ==
    IF Len(arguments) % 4 = 0 THEN [err |-> 0, str |-> arguments]
    ELSE IF Len(arguments) >= MAX_ARGUMENTS_SIZE THEN [err |-> 1, str |-> arguments]
    ELSE PadBlob(Append(arguments, 0))

OscMessageAddBlob(m, source) ==
    IF TooManyArguments(m) THEN [err |-> 1, msg |-> m]
    ELSE IF MessageFull(m, SizeofOscArgument32 + Len(source))
    THEN [err |-> 1, msg |-> m]
    ELSE LET p == PadBlob(m.arguments \o Int32Bytes(Len(source)) \o source)
         IN  IF p.err # 0 THEN [err |-> 1, msg |-> m]
             ELSE [err |-> 0,
                   msg |-> [AppendTypeTag(m, OscTypeTagBlob)
                               EXCEPT !.arguments = p.str]]

OscMessageAddInt64(m, int64) == AddFixedSize(m, OscTypeTagInt64, BigEndian(int64))
OscMessageAddTimeTag(m, oscTimeTag) ==
    AddFixedSize(m, OscTypeTagTimeTag, BigEndian(oscTimeTag))
OscMessageAddDouble(m, double64) ==
    AddFixedSize(m, OscTypeTagDouble, BigEndian(double64))

OscMessageAddAlternateString(m, string) ==
    LET r == OscMessageAddString(m, string)
    IN  IF r.err # 0 THEN [err |-> 1, msg |-> m]
        ELSE [err |-> 0,
              msg |-> [r.msg EXCEPT
                          !.oscTypeTagString[oscTypeTagStringLength(r.msg)] =
                              OscTypeTagAlternateString]]

OscMessageAddCharacter(m, asciiChar) ==
    AddFixedSize(m, OscTypeTagCharacter, <<0, 0, 0, asciiChar>>)
OscMessageAddRgbaColour(m, rgbaColour) ==
    AddFixedSize(m, OscTypeTagRgbaColour, BigEndian(rgbaColour))
OscMessageAddMidiMessage(m, midiMessage) ==
    AddFixedSize(m, OscTypeTagMidiMessage, BigEndian(midiMessage))
OscMessageAddBool(m, boolean) ==
    AddTagOnly(m, IF boolean THEN OscTypeTagTrue ELSE OscTypeTagFalse)
OscMessageAddNil(m) == AddTagOnly(m, OscTypeTagNil)
OscMessageAddInfinitum(m) == AddTagOnly(m, OscTypeTagInfinitum)
OscMessageAddBeginArray(m) == AddTagOnly(m, OscTypeTagBeginArray)
OscMessageAddEndArray(m) == AddTagOnly(m, OscTypeTagEndArray)

\* n increased to a multiple of 4
RoundUp4(n) == IF n % 4 # 0 THEN n + (4 - (n % 4)) ELSE n

\* a size that leaves out the padding of the type tag string
C39_GetSizeWithoutPadding(m) ==
    RoundUp4(oscAddressPatternLength(m) + 1) + oscTypeTagStringLength(m) + 1
    + argumentsSize(m)

OscMessageGetSize(m) ==
    RoundUp4(RoundUp4(oscAddressPatternLength(m) + 1)
             + oscTypeTagStringLength(m) + 1)
    + argumentsSize(m)

\* The result holds the value left in *oscMessageSize (size), the bytes of
\* destination written so far (bytes) and the return value (err).
OscMessageToCharArray(m, destinationSize) ==
    IF oscAddressPatternLength(m) = 0 THEN [err |-> 1, size |-> 0, bytes |-> <<>>]
    ELSE IF Head(m.oscAddressPattern) # OscContentsTypeMessage
    THEN [err |-> 1, size |-> 0, bytes |-> <<>>]
    ELSE IF oscAddressPatternLength(m) > destinationSize
    THEN [err |-> 1, size |-> 0, bytes |-> <<>>]
    ELSE LET a == TerminateOscString(m.oscAddressPattern, destinationSize)
         IN  IF a.err # 0 THEN [err |-> 1, size |-> 0, bytes |-> a.str]
             ELSE IF Len(a.str) + oscTypeTagStringLength(m) > destinationSize
             THEN [err |-> 1, size |-> 0, bytes |-> a.str]
             ELSE LET t == TerminateOscString(a.str \o m.oscTypeTagString,
                                              destinationSize)
                  IN  IF t.err # 0 THEN [err |-> 1, size |-> 0, bytes |-> t.str]
                      ELSE IF Len(t.str) + argumentsSize(m) > destinationSize
                      THEN [err |-> 1, size |-> 0, bytes |-> t.str]
                      ELSE [err |-> 0,
                            size |-> Len(t.str) + argumentsSize(m),
                            bytes |-> t.str \o m.arguments]

--------------------------------------------------------------------------
(* OscMessage.c: message deconstruction.                                  *)

\* the loop copying the OSC address pattern; i is sourceIndex
RECURSIVE ParseAddressPattern(_, _, _)
ParseAddressPattern(m, source, i) ==
    IF At(source, i) = 0 THEN [err |-> 0, msg |-> m, i |-> i]
    ELSE LET m1 == [m EXCEPT !.oscAddressPattern = Append(@, At(source, i))]
         IN  IF oscAddressPatternLength(m1) > MAX_OSC_ADDRESS_PATTERN_LENGTH
             THEN [err |-> 1, msg |-> m1, i |-> i]
             ELSE IF i + 1 >= Len(source) THEN [err |-> 1, msg |-> m1, i |-> i + 1]
             ELSE ParseAddressPattern(m1, source, i + 1)

\* the loop advancing sourceIndex past the comma
RECURSIVE SkipPastComma(_, _)
SkipPastComma(source, i) ==
    IF At(source, i - 1) = Comma THEN [err |-> 0, i |-> i]
    ELSE IF i + 1 >= Len(source) THEN [err |-> 1, i |-> i + 1]
    ELSE SkipPastComma(source, i + 1)

\* the loop copying the OSC type tag string
RECURSIVE ParseTypeTagString(_, _, _)
ParseTypeTagString(m, source, i) ==
    IF At(source, i) = 0 THEN [err |-> 0, msg |-> m, i |-> i]
    ELSE LET m1 == [m EXCEPT !.oscTypeTagString = Append(@, At(source, i))]
         IN  IF oscTypeTagStringLength(m1) > MAX_OSC_TYPE_TAG_STRING_LENGTH
             THEN [err |-> 1, msg |-> m1, i |-> i]
             ELSE IF i + 1 >= Len(source) THEN [err |-> 1, msg |-> m1, i |-> i + 1]
             ELSE ParseTypeTagString(m1, source, i + 1)

\* the loop advancing sourceIndex to the arguments
RECURSIVE AdvanceToArguments(_, _)
AdvanceToArguments(i, sourceSize) ==
    IF i + 1 > sourceSize THEN [err |-> 1, i |-> i + 1]
    ELSE IF (i + 1) % 4 # 0 THEN AdvanceToArguments(i + 1, sourceSize)
    ELSE [err |-> 0, i |-> i + 1]

\* source holds the sourceSize bytes at the source address
OscMessageInitialiseFromCharArray(residue, source) ==
    LET m0 == BlankMessage(residue)
        sourceSize == Len(source)
    IN  IF sourceSize % 4 # 0 THEN [err |-> 1, msg |-> m0]
        ELSE IF sourceSize < MIN_OSC_MESSAGE_SIZE THEN [err |-> 1, msg |-> m0]
        ELSE IF sourceSize > MAX_OSC_MESSAGE_SIZE THEN [err |-> 1, msg |-> m0]
        ELSE IF At(source, 0) # OscContentsTypeMessage THEN [err |-> 1, msg |-> m0]
        ELSE LET a == ParseAddressPattern(m0, source, 0)
             IN  IF a.err # 0 THEN [err |-> 1, msg |-> a.msg]
        ELSE LET c == SkipPastComma(source, a.i)
             IN  IF c.err # 0 THEN [err |-> 1, msg |-> a.msg]
        ELSE LET t == ParseTypeTagString(a.msg, source, c.i)
             IN  IF t.err # 0 THEN [err |-> 1, msg |-> t.msg]
        ELSE LET g == AdvanceToArguments(t.i, sourceSize)
             IN  IF g.err # 0 THEN [err |-> 1, msg |-> t.msg]
        ELSE [err |-> 0,
              msg |-> [t.msg EXCEPT !.arguments =
                                        SubSeq(source, g.i + 1, sourceSize)]]

\* a test that finds an argument at the null of the type tag string
C28_AvailableAtTerminator(m) ==
    m.oscTypeTagStringIndex <= oscTypeTagStringLength(m)

OscMessageIsArgumentAvailable(m) ==
    m.oscTypeTagStringIndex <= oscTypeTagStringLength(m) - 1

\* oscTypeTagString[i]: the terminating null sits at the string's length and
\* nothing was written beyond it
TypeTagAt(m, i) ==
    IF i < oscTypeTagStringLength(m) THEN At(m.oscTypeTagString, i)
    ELSE IF i = oscTypeTagStringLength(m) THEN 0
    ELSE m.residue

\* arguments[i]: nothing was written from argumentsSize on
ArgumentsAt(m, i) ==
    IF i < argumentsSize(m) THEN At(m.arguments, i) ELSE m.residue

OscMessageGetArgumentType(m) ==
    IF m.oscTypeTagStringIndex > oscTypeTagStringLength(m) THEN 0
    ELSE TypeTagAt(m, m.oscTypeTagStringIndex)

\* a skip that passes over 4 bytes of payload as well
C30_SkipMovesPayloadCursor(m) ==
    IF m.oscTypeTagStringIndex > oscTypeTagStringLength(m)
    THEN [err |-> 1, msg |-> m]
    ELSE [err |-> 0, msg |-> [m EXCEPT !.oscTypeTagStringIndex = @ + 1,
                                       !.argumentsIndex = @ + 4]]

OscMessageSkipArgument(m) ==
    IF m.oscTypeTagStringIndex > oscTypeTagStringLength(m)
    THEN [err |-> 1, msg |-> m]
    ELSE [err |-> 0, msg |-> [m EXCEPT !.oscTypeTagStringIndex = @ + 1]]

\* an OscMessageGet function that moves the cursors as it reads and finds
\* the argument region too short afterwards
C14_GetFixedSizeMovesFirst(m, tag, size) ==
    IF TypeTagAt(m, m.oscTypeTagStringIndex) # tag
    THEN [err |-> 1, msg |-> m, val |-> <<>>]
    ELSE LET moved == [m EXCEPT !.argumentsIndex = @ + size,
                                !.oscTypeTagStringIndex = @ + 1]
         IN  IF m.argumentsIndex + size > argumentsSize(m)
             THEN [err |-> 1, msg |-> moved, val |-> <<>>]
             ELSE [err |-> 0, msg |-> moved,
                   val |-> SubSeq(m.arguments, m.argumentsIndex + 1,
                                  m.argumentsIndex + size)]

\* body shared by the OscMessageGet functions of fixed-size arguments: val is
\* the sequence of the argument's bytes in the order read
GetFixedSize(m, tag, size) ==
    IF TypeTagAt(m, m.oscTypeTagStringIndex) # tag
    THEN [err |-> 1, msg |-> m, val |-> <<>>]
    ELSE IF m.argumentsIndex + size > argumentsSize(m)
    THEN [err |-> 1, msg |-> m, val |-> <<>>]
    ELSE [err |-> 0,
          msg |-> [m EXCEPT !.argumentsIndex = @ + size,
                            !.oscTypeTagStringIndex = @ + 1],
          val |-> SubSeq(m.arguments, m.argumentsIndex + 1,
                         m.argumentsIndex + size)]

\* r is the result of GetFixedSize; f converts the bytes read to the value
ValueOf(r, f(_)) == IF r.err # 0 THEN r ELSE [r EXCEPT !.val = f(@)]

Int32OfBytes(b) == Int32FromBytes(b[1], b[2], b[3], b[4])
LastByte(b) == b[Len(b)]

OscMessageGetInt32(m) ==
    ValueOf(GetFixedSize(m, OscTypeTagInt32, SizeofOscArgument32), Int32OfBytes)
OscMessageGetFloat32(m) ==
    ValueOf(GetFixedSize(m, OscTypeTagFloat32, SizeofOscArgument32), FromBigEndian)
OscMessageGetInt64(m) ==
    ValueOf(GetFixedSize(m, OscTypeTagInt64, SizeofOscArgument64), FromBigEndian)
OscMessageGetTimeTag(m) ==
    ValueOf(GetFixedSize(m, OscTypeTagTimeTag, SizeofOscArgument64), FromBigEndian)
OscMessageGetDouble(m) ==
    ValueOf(GetFixedSize(m, OscTypeTagDouble, SizeofOscArgument64), FromBigEndian)
OscMessageGetCharacter(m) ==
    ValueOf(GetFixedSize(m, OscTypeTagCharacter, SizeofOscArgument32), LastByte)
OscMessageGetRgbaColour(m) ==
    ValueOf(GetFixedSize(m, OscTypeTagRgbaColour, SizeofOscArgument32), FromBigEndian)
OscMessageGetMidiMessage(m) ==
    ValueOf(GetFixedSize(m, OscTypeTagMidiMessage, SizeofOscArgument32), FromBigEndian)

\* the do-while loop of OscMessageGetString copying up to the null; ai is the
\* local argumentsIndex, str the characters copied before the null
RECURSIVE CopyString(_, _, _, _)
CopyString(m, ai, str, destinationSize) ==
    LET c == ArgumentsAt(m, ai)
    IN  IF Len(str) + 1 > destinationSize THEN [err |-> 1, ai |-> ai, str |-> str]
        ELSE IF c # 0 THEN CopyString(m, ai + 1, Append(str, c), destinationSize)
        ELSE [err |-> 0, ai |-> ai + 1, str |-> str]

\* a reader that leaves the local argumentsIndex behind the null or the
\* last byte of the blob
C36_ArgumentsIndexNotAligned(m, ai) == [err |-> 0, ai |-> ai]

\* the loop moving the local argumentsIndex to a multiple of 4
RECURSIVE AlignArgumentsIndex(_, _)
AlignArgumentsIndex(m, ai) ==
    IF ai % 4 = 0 THEN [err |-> 0, ai |-> ai]
    ELSE IF ai + 1 > argumentsSize(m) THEN [err |-> 1, ai |-> ai + 1]
    ELSE AlignArgumentsIndex(m, ai + 1)

OscMessageGetString(m, destinationSize) ==
    IF /\ TypeTagAt(m, m.oscTypeTagStringIndex) # OscTypeTagString
       /\ TypeTagAt(m, m.oscTypeTagStringIndex) # OscTypeTagAlternateString
    THEN [err |-> 1, msg |-> m, val |-> <<>>]
    ELSE IF m.argumentsIndex + 4 > argumentsSize(m)
    THEN [err |-> 1, msg |-> m, val |-> <<>>]
    ELSE IF 4 > destinationSize THEN [err |-> 1, msg |-> m, val |-> <<>>]
    ELSE LET c == CopyString(m, m.argumentsIndex, <<>>, destinationSize)
         IN  IF c.err # 0 THEN [err |-> 1, msg |-> m, val |-> c.str]
             ELSE LET a == AlignArgumentsIndex(m, c.ai)
                  IN  IF a.err # 0 THEN [err |-> 1, msg |-> m, val |-> c.str]
                      ELSE [err |-> 0,
                            msg |-> [m EXCEPT !.argumentsIndex = a.ai,
                                              !.oscTypeTagStringIndex = @ + 1],
                            val |-> c.str]

\* (x > y) where the int is compared as a signed value
C27_GreaterAsSigned(x, y) == x > y

\* (x > y) in C where x is an int converted to size_t for the comparison
GreaterAsUnsigned(x, y) == x < 0 \/ x > y

OscMessageGetBlob(m, destinationSize) ==
    IF TypeTagAt(m, m.oscTypeTagStringIndex) # OscTypeTagBlob
    THEN [err |-> 1, msg |-> m, val |-> <<>>]
    ELSE IF m.argumentsIndex + SizeofOscArgument32 > argumentsSize(m)
    THEN [err |-> 1, msg |-> m, val |-> <<>>]
    ELSE LET ai == m.argumentsIndex + 4
             blobSize == Int32OfBytes(SubSeq(m.arguments, m.argumentsIndex + 1, ai))
         IN  IF GreaterAsUnsigned(ai + blobSize, argumentsSize(m))
             THEN [err |-> 1, msg |-> m, val |-> <<>>]
             ELSE IF GreaterAsUnsigned(blobSize, destinationSize)
             THEN [err |-> 1, msg |-> m, val |-> <<>>]
             ELSE LET a == AlignArgumentsIndex(m, ai + blobSize)
                      blob == SubSeq(m.arguments, ai + 1, ai + blobSize)
                  IN  IF a.err # 0 THEN [err |-> 1, msg |-> m, val |-> blob]
                      ELSE [err |-> 0,
                            msg |-> [m EXCEPT !.argumentsIndex = a.ai,
                                              !.oscTypeTagStringIndex = @ + 1],
                            val |-> blob]

--------------------------------------------------------------------------
(* OscSlip.c.                                                             *)

SLIP_END == 192
SLIP_ESC == 219
SLIP_ESC_END == 220
SLIP_ESC_ESC == 221

MAX_OSC_PACKET_SIZE == MAX_TRANSPORT_SIZE
OSC_SLIP_DECODER_BUFFER_SIZE == MAX_TRANSPORT_SIZE

\* The buffer is never read where it was not written: the decoding loop stops
\* at the first END, and every byte before the END just stored was stored
\* since the previous END or since the index last wrapped.
OscSlipDecoderInitialise ==
    [ buffer |-> [i \in 1 .. OSC_SLIP_DECODER_BUFFER_SIZE |-> 0],
      bufferIndex |-> 0,
      processPacket |-> FALSE ]

\* a decoding loop that takes both escape pairs for an ESC
RECURSIVE C8_SlipDecodeLoopOneEscape(_, _, _)
C8_SlipDecodeLoopOneEscape(buffer, i, contents) ==
    IF At(buffer, i) = SLIP_END THEN [err |-> 0, contents |-> contents]
    ELSE LET escaped == At(buffer, i) = SLIP_ESC
             j == IF escaped THEN i + 1 ELSE i
             c == IF ~escaped THEN At(buffer, i)
                  ELSE IF At(buffer, j) \in {SLIP_ESC_END, SLIP_ESC_ESC}
                  THEN SLIP_ESC
                  ELSE -1
         IN  IF c = -1 THEN [err |-> 1, contents |-> contents]
             ELSE IF Len(contents) + 1 > MAX_OSC_PACKET_SIZE
             THEN [err |-> 1, contents |-> Append(contents, c)]
             ELSE C8_SlipDecodeLoopOneEscape(buffer, j + 1, Append(contents, c))

\* the loop of OscSlipDecoderProcessByte that fills oscPacket.contents; i is
\* the loop index and contents holds oscPacket.size bytes
RECURSIVE SlipDecodeLoop(_, _, _)
SlipDecodeLoop(buffer, i, contents) ==
    IF At(buffer, i) = SLIP_END THEN [err |-> 0, contents |-> contents]
    ELSE LET escaped == At(buffer, i) = SLIP_ESC
             j == IF escaped THEN i + 1 ELSE i
             c == IF ~escaped THEN At(buffer, i)
                  ELSE IF At(buffer, j) = SLIP_ESC_END THEN SLIP_END
                  ELSE IF At(buffer, j) = SLIP_ESC_ESC THEN SLIP_ESC
                  ELSE -1
         IN  IF c = -1 THEN [err |-> 1, contents |-> contents]
             ELSE IF Len(contents) + 1 > MAX_OSC_PACKET_SIZE
             THEN [err |-> 1, contents |-> Append(contents, c)]
             ELSE SlipDecodeLoop(buffer, j + 1, Append(contents, c))

\* a decoder that resets its index only when it hands over a packet
C12_ProcessByteKeepsIndexOnError(dec, byte) ==
    LET stored == [dec EXCEPT !.buffer[dec.bufferIndex + 1] = byte]
        next == IF dec.bufferIndex + 1 >= OSC_SLIP_DECODER_BUFFER_SIZE
                THEN 0 ELSE dec.bufferIndex + 1
        kept == [stored EXCEPT !.bufferIndex = next]
    IN  IF byte # SLIP_END
        THEN [err |-> 0, dec |-> kept, packets |-> <<>>]
        ELSE IF ~dec.processPacket
        THEN [err |-> 1, dec |-> kept, packets |-> <<>>]
        ELSE LET d == SlipDecodeLoop(stored.buffer, 0, <<>>)
             IN  IF d.err # 0
                 THEN [err |-> 1, dec |-> kept, packets |-> <<>>]
                 ELSE [err |-> 0, dec |-> [stored EXCEPT !.bufferIndex = 0],
                       packets |-> <<d.contents>>]

\* a decoder whose index wraps one byte before the end of the buffer
C34_ProcessByteWrapsEarly(dec, byte) ==
    LET stored == [dec EXCEPT !.buffer[dec.bufferIndex + 1] = byte]
        next == IF dec.bufferIndex + 1 >= OSC_SLIP_DECODER_BUFFER_SIZE - 1
                THEN 0 ELSE dec.bufferIndex + 1
    IN  IF byte # SLIP_END
        THEN [err |-> 0, dec |-> [stored EXCEPT !.bufferIndex = next],
              packets |-> <<>>]
        ELSE LET reset == [stored EXCEPT !.bufferIndex = 0]
             IN  IF ~dec.processPacket
                 THEN [err |-> 1, dec |-> reset, packets |-> <<>>]
                 ELSE LET d == SlipDecodeLoop(stored.buffer, 0, <<>>)
                      IN  IF d.err # 0
                          THEN [err |-> 1, dec |-> reset, packets |-> <<>>]
                          ELSE [err |-> 0, dec |-> reset,
                                packets |-> <<d.contents>>]

\* The result holds the return value, the decoder afterwards and the packets
\* handed to processPacket by this call.
OscSlipDecoderProcessByte(dec, byte) ==
    LET stored == [dec EXCEPT !.buffer[dec.bufferIndex + 1] = byte]
        next == IF dec.bufferIndex + 1 >= OSC_SLIP_DECODER_BUFFER_SIZE
                THEN 0 ELSE dec.bufferIndex + 1
    IN  IF byte # SLIP_END
        THEN [err |-> 0, dec |-> [stored EXCEPT !.bufferIndex = next],
              packets |-> <<>>]
        ELSE LET reset == [stored EXCEPT !.bufferIndex = 0]
             IN  IF ~dec.processPacket
                 THEN [err |-> 1, dec |-> reset, packets |-> <<>>]
                 ELSE LET d == SlipDecodeLoop(stored.buffer, 0, <<>>)
                      IN  IF d.err # 0
                          THEN [err |-> 1, dec |-> reset, packets |-> <<>>]
                          ELSE [err |-> 0, dec |-> reset,
                                packets |-> <<d.contents>>]

\* an encoder that escapes END as it escapes ESC
C9_SlipEncodeByteOneEscape(byte) ==
    IF byte \in {SLIP_END, SLIP_ESC} THEN <<SLIP_ESC, SLIP_ESC_ESC>>
    ELSE <<byte>>

\* the bytes the switch of OscSlipEncodePacket stores for one packet byte
SlipEncodeByte(byte) ==
    IF byte = SLIP_END THEN <<SLIP_ESC, SLIP_ESC_END>>
    ELSE IF byte = SLIP_ESC THEN <<SLIP_ESC, SLIP_ESC_ESC>>
    ELSE <<byte>>

\* the test made before a packet byte is encoded
SlipDestinationTooSmall(encodedPacketSize, destinationSize) ==
    encodedPacketSize + 1 > destinationSize

\* the for loop of OscSlipEncodePacket; destination holds the
\* encodedPacketSize bytes stored so far
RECURSIVE SlipEncodeLoop(_, _, _, _)
SlipEncodeLoop(contents, packetIndex, destination, destinationSize) ==
    IF packetIndex >= Len(contents) THEN [err |-> 0, destination |-> destination]
    ELSE IF SlipDestinationTooSmall(Len(destination), destinationSize)
    THEN [err |-> 1, destination |-> destination]
    ELSE SlipEncodeLoop(contents, packetIndex + 1,
                        destination \o SlipEncodeByte(At(contents, packetIndex)),
                        destinationSize)

\* The result holds the return value, *slipPacketSize and every byte stored
\* through destination, in order from destination[0]: bytes is longer than
\* destinationSize when the function stored past the end of the destination.
OscSlipEncodePacket(contents, destinationSize) ==
    LET r == SlipEncodeLoop(contents, 0, <<>>, destinationSize)
    IN  IF r.err # 0 THEN [err |-> 1, size |-> 0, bytes |-> r.destination]
        ELSE [err |-> 0, size |-> Len(r.destination) + 1,
              bytes |-> Append(r.destination, SLIP_END)]

--------------------------------------------------------------------------
(* OscBundle.c.                                                           *)

\* "#bundle" and its terminating null
OSC_BUNDLE_HEADER == <<35, 98, 117, 110, 100, 108, 101, 0>>
SizeofOscTimeTag == 8

MIN_OSC_BUNDLE_SIZE == Len(OSC_BUNDLE_HEADER) + SizeofOscTimeTag
MAX_OSC_BUNDLE_SIZE == MAX_TRANSPORT_SIZE
MAX_OSC_BUNDLE_ELEMENTS_SIZE ==
    MAX_OSC_BUNDLE_SIZE - Len(OSC_BUNDLE_HEADER) - SizeofOscTimeTag

oscBundleElementsSize(b) == Len(b.oscBundleElements)

\* The time tag is a byteStruct <<byte0, ..., byte7>>.  OscBundleInitialise
\* does not write oscBundleElementsIndex: residue is what the field held.
OscBundleInitialise(residue, oscTimeTag) ==
    [ header |-> OSC_BUNDLE_HEADER,
      oscTimeTag |-> oscTimeTag,
      oscBundleElements |-> <<>>,
      oscBundleElementsIndex |-> residue ]

\* The contents handed to OscBundleAddContents and
\* OscPacketInitialiseFromContents are an OscMessage or an OscBundle; the
\* macros look at the first byte of the structure, which is
\* oscAddressPattern[0] or header[0].
MessageContents(m) == [isMessage |-> TRUE, oscMessage |-> m]
BundleContents(b) == [isMessage |-> FALSE, oscBundle |-> b]

FirstByteOfContents(oscContents) ==
    IF oscContents.isMessage
    THEN IF oscAddressPatternLength(oscContents.oscMessage) = 0 THEN 0
         ELSE Head(oscContents.oscMessage.oscAddressPattern)
    ELSE Head(oscContents.oscBundle.header)

OSC_CONTENTS_IS_MESSAGE(oscContents) ==
    FirstByteOfContents(oscContents) = OscContentsTypeMessage
OSC_CONTENTS_IS_BUNDLE(oscContents) ==
    FirstByteOfContents(oscContents) = OscContentsTypeBundle

\* a remaining capacity that leaves no room for the size of the element
C15_RemainingCapacityWithoutPrefix(b) ==
    MAX_OSC_BUNDLE_ELEMENTS_SIZE - oscBundleElementsSize(b)

\* size_t arithmetic wraps modulo a power of two.  16 bits is the least width
\* a size_t has; a wider one wraps the same way, to a value as far above
\* every bundle size.
SizeModulus == 2 ^ 16

\* the subtraction is done in size_t
OscBundleGetRemainingCapacity(b) ==
    (MAX_OSC_BUNDLE_ELEMENTS_SIZE - oscBundleElementsSize(b) - SizeofOscArgument32)
        % SizeModulus

OscBundleGetSize(b) ==
    Len(OSC_BUNDLE_HEADER) + SizeofOscTimeTag + oscBundleElementsSize(b)

OscBundleIsEmpty(b) == oscBundleElementsSize(b) = 0

OscBundleEmpty(b) == [b EXCEPT !.oscBundleElements = <<>>]

\* a serialisation that writes the time tag in the order of its byteStruct
C25_ToCharArrayLeastFirst(b, destinationSize) ==
    IF Len(OSC_BUNDLE_HEADER) + SizeofOscTimeTag + oscBundleElementsSize(b)
           > destinationSize
    THEN [err |-> 1, size |-> 0, bytes |-> <<>>]
    ELSE LET bytes == b.header \o b.oscTimeTag \o b.oscBundleElements
         IN  [err |-> 0, size |-> Len(bytes), bytes |-> bytes]

OscBundleToCharArray(b, destinationSize) ==
    IF Len(OSC_BUNDLE_HEADER) + SizeofOscTimeTag + oscBundleElementsSize(b)
           > destinationSize
    THEN [err |-> 1, size |-> 0, bytes |-> <<>>]
    ELSE LET bytes == b.header \o BigEndian(b.oscTimeTag) \o b.oscBundleElements
         IN  [err |-> 0, size |-> Len(bytes), bytes |-> bytes]

\* the serialisation of the contents into the free part of the element buffer
SerialiseContents(oscContents, destinationSize) ==
    IF OSC_CONTENTS_IS_MESSAGE(oscContents)
    THEN OscMessageToCharArray(oscContents.oscMessage, destinationSize)
    ELSE IF OSC_CONTENTS_IS_BUNDLE(oscContents)
    THEN OscBundleToCharArray(oscContents.oscBundle, destinationSize)
    ELSE [err |-> 1, size |-> 0, bytes |-> <<>>]

\* The bytes a failed serialisation stored beyond oscBundleElementsSize are
\* not part of the element region and are overwritten by the next call.
OscBundleAddContents(b, oscContents) ==
    IF oscBundleElementsSize(b) + SizeofOscArgument32 > MAX_OSC_BUNDLE_ELEMENTS_SIZE
    THEN [err |-> 1, bundle |-> b]
    ELSE LET s == SerialiseContents(oscContents, OscBundleGetRemainingCapacity(b))
         IN  IF s.err # 0 THEN [err |-> s.err, bundle |-> b]
             ELSE [err |-> 0,
                   bundle |-> [b EXCEPT !.oscBundleElements =
                                   @ \o Int32Bytes(s.size) \o s.bytes]]

\* source holds the sourceSize bytes at the source address and past is the
\* byte that follows them: the do-while loop copies one byte before it tests
\* sourceIndex, so a source of 16 bytes leaves one element byte, source[16].
\* On an error the bundle is left as it was (unset).
OscBundleInitialiseFromCharArray(unset, source, past) ==
    LET sourceSize == Len(source)
    IN  IF sourceSize % 4 # 0 THEN [err |-> 1, bundle |-> unset]
        ELSE IF sourceSize < MIN_OSC_BUNDLE_SIZE THEN [err |-> 1, bundle |-> unset]
        ELSE IF sourceSize > MAX_OSC_BUNDLE_SIZE THEN [err |-> 1, bundle |-> unset]
        ELSE IF At(source, 0) # OscContentsTypeBundle
        THEN [err |-> 1, bundle |-> unset]
        ELSE [err |-> 0,
              bundle |->
                [ header |-> SubSeq(source, 1, 8),
                  oscTimeTag |-> FromBigEndian(SubSeq(source, 9, 16)),
                  oscBundleElements |->
                      IF sourceSize > 16 THEN SubSeq(source, 17, sourceSize)
                      ELSE <<past>>,
                  oscBundleElementsIndex |-> 0 ]]

OscBundleIsBundleElementAvailable(b) ==
    b.oscBundleElementsIndex + SizeofOscArgument32 < oscBundleElementsSize(b)

\* an element read that leaves the cursor at the contents of the element
C2_GetBundleElementKeepsCursor(b) ==
    IF b.oscBundleElementsIndex + SizeofOscArgument32 >= oscBundleElementsSize(b)
    THEN [err |-> 1, bundle |-> b, size |-> 0, contents |-> <<>>]
    ELSE LET i == b.oscBundleElementsIndex
             size == Int32FromBytes(At(b.oscBundleElements, i),
                                    At(b.oscBundleElements, i + 1),
                                    At(b.oscBundleElements, i + 2),
                                    At(b.oscBundleElements, i + 3))
             read == [b EXCEPT !.oscBundleElementsIndex = i + 4]
         IN  IF size < 0 \/ size % 4 # 0 \/ i + 4 + size > oscBundleElementsSize(b)
             THEN [err |-> 1, bundle |-> read, size |-> size, contents |-> <<>>]
             ELSE [err |-> 0, bundle |-> read, size |-> size,
                   contents |-> SubSeq(b.oscBundleElements, i + 5, i + 4 + size)]

\* The result holds the return value, the bundle afterwards and the element:
\* its size and the bytes at its contents address.
OscBundleGetBundleElement(b) ==
    IF b.oscBundleElementsIndex + SizeofOscArgument32 >= oscBundleElementsSize(b)
    THEN [err |-> 1, bundle |-> b, size |-> 0, contents |-> <<>>]
    ELSE LET i == b.oscBundleElementsIndex
             size == Int32FromBytes(At(b.oscBundleElements, i),
                                    At(b.oscBundleElements, i + 1),
                                    At(b.oscBundleElements, i + 2),
                                    At(b.oscBundleElements, i + 3))
             read == [b EXCEPT !.oscBundleElementsIndex = i + 4]
         IN  IF size < 0
             THEN [err |-> 1, bundle |-> read, size |-> size, contents |-> <<>>]
             ELSE IF size % 4 # 0
             THEN [err |-> 1, bundle |-> read, size |-> size, contents |-> <<>>]
             ELSE IF i + 4 + size > oscBundleElementsSize(b)
             THEN [err |-> 1, bundle |-> read, size |-> size, contents |-> <<>>]
             ELSE [err |-> 0,
                   bundle |-> [b EXCEPT !.oscBundleElementsIndex = i + 4 + size],
                   size |-> size,
                   contents |-> SubSeq(b.oscBundleElements, i + 5, i + 4 + size)]

--------------------------------------------------------------------------
(* OscPacket.c.                                                           *)

OscPacketInitialise == [size |-> 0, contents |-> <<>>, processMessage |-> FALSE]

\* Contents that are neither a message nor a bundle leave size and contents
\* as they were; otherwise contents holds the bytes stored by this call.
OscPacketInitialiseFromContents(oscPacket, oscContents) ==
    LET s == SerialiseContents(oscContents, MAX_OSC_PACKET_SIZE)
        packet == [size |-> s.size, contents |-> s.bytes, processMessage |-> FALSE]
    IN  IF ~OSC_CONTENTS_IS_MESSAGE(oscContents) /\ ~OSC_CONTENTS_IS_BUNDLE(oscContents)
        THEN [err |-> 1, packet |-> [oscPacket EXCEPT !.processMessage = FALSE]]
        ELSE IF s.err # 0 THEN [err |-> s.err, packet |-> packet]
        ELSE [err |-> 1, packet |-> packet]

OscPacketInitialiseFromCharArray(source) ==
    IF Len(source) > MAX_OSC_PACKET_SIZE
    THEN [err |-> 1, packet |-> OscPacketInitialise]
    ELSE [err |-> 0,
          packet |-> [size |-> Len(source), contents |-> source,
                      processMessage |-> FALSE]]

\* The oscTimeTag argument of DeconstructContents and of the handler: NULL or
\* the address of a time tag.
NULL == <<>>

\* What DeconstructContents did, in order: an entry for each call of
\* OscMessageInitialiseFromCharArray ("message"), of the processMessage handler
\* ("processMessage"), of OscBundleInitialiseFromCharArray ("bundle"), of
\* OscBundleGetBundleElement ("element") and for each return of 1 by
\* DeconstructContents itself ("contents").
Did(op, err, oscTimeTag, m) ==
    [op |-> op, err |-> err, oscTimeTag |-> oscTimeTag, oscMessage |-> m]

\* DeconstructContents and the do-while loop of its bundle branch.  unset is
\* what the automatic objects oscMessage and oscBundle hold before they are
\* initialised: [oscBundle, residue, past].
RECURSIVE DeconstructContents(_, _, _)
RECURSIVE DeconstructElements(_, _)

DeconstructMessage(oscTimeTag, oscContents, unset) ==
    LET r == OscMessageInitialiseFromCharArray(unset.residue, oscContents)
    IN  [err |-> 0,
         did |-> << Did("message", r.err, oscTimeTag, r.msg),
                    Did("processMessage", 0, oscTimeTag, r.msg) >>]

DeconstructBundle(oscContents, unset) ==
    LET r == OscBundleInitialiseFromCharArray(unset.oscBundle, oscContents,
                                              unset.past)
        e == DeconstructElements(r.bundle, unset)
    IN  [err |-> e.err,
         did |-> <<Did("bundle", r.err, r.bundle.oscTimeTag, BlankMessage(0))>>
                    \o e.did]

DeconstructContents(oscTimeTag, oscContents, unset) ==
    IF Len(oscContents) = 0
    THEN [err |-> 1, did |-> <<Did("contents", 1, oscTimeTag, BlankMessage(0))>>]
    ELSE IF At(oscContents, 0) = OscContentsTypeMessage
    THEN DeconstructMessage(oscTimeTag, oscContents, unset)
    ELSE IF At(oscContents, 0) = OscContentsTypeBundle
    THEN DeconstructBundle(oscContents, unset)
    ELSE [err |-> 1, did |-> <<Did("contents", 1, oscTimeTag, BlankMessage(0))>>]

DeconstructElements(oscBundle, unset) ==
    IF ~OscBundleIsBundleElementAvailable(oscBundle)
    THEN [err |-> 0, did |-> <<>>]
    ELSE LET g == OscBundleGetBundleElement(oscBundle)
             got1 == Did("element", g.err, oscBundle.oscTimeTag, BlankMessage(0))
         IN  IF g.err # 0 THEN [err |-> g.err, did |-> <<got1>>]
             ELSE LET d == DeconstructContents(oscBundle.oscTimeTag, g.contents,
                                               unset)
                  IN  IF d.err # 0
                      THEN [err |-> d.err, did |-> <<got1>> \o d.did]
                      ELSE LET rest == DeconstructElements(g.bundle, unset)
                           IN  [err |-> rest.err,
                                did |-> <<got1>> \o d.did \o rest.did]

OscPacketProcessMessages(oscPacket, unset) ==
    IF ~oscPacket.processMessage THEN [err |-> 1, did |-> <<>>]
    ELSE DeconstructContents(NULL, SubSeq(oscPacket.contents, 1, oscPacket.size),
                             unset)

--------------------------------------------------------------------------
(* The message codec driven by an application: a message is built, then   *)
(* serialised, the bytes are parsed into a second message and its         *)
(* arguments are read.                                                    *)

Slash == OscContentsTypeMessage
\* the letters "ab"
Letters == <<97, 98>>
LetterA == Letters[1]
LetterB == Letters[2]

\* address patterns handed to OscMessageInitialise
AddressPatterns ==
    { <<>>, <<Slash>>, <<Slash, LetterA>>, <<Slash, Comma>>, <<LetterA>>,
      <<Slash, LetterA, LetterB>>, <<Slash, LetterA, Comma>>,
      <<Slash, LetterA, LetterB, LetterA>> }

Int32Values == { 1, -2, 16909060 }
\* 32-bit and 64-bit values as byteStruct <<byte0, byte1, ...>>
Word32Values == { <<4, 3, 2, 1>>, <<0, 0, 128, 63>> }
Word64Values == { <<8, 7, 6, 5, 4, 3, 2, 1>>, <<0, 0, 0, 0, 0, 0, 240, 191>> }
StringValues == { <<>>, <<LetterA>>, <<LetterA, LetterB, Comma>>,
                  <<LetterA, LetterB, LetterA, LetterB>> }
BlobValues == { <<>>, <<0>>, <<1, 2, 3, 0, 5>> }
CharacterValues == { LetterA }
DestinationSizes == { 3, 4, 8 }

NoPayloadTags == { OscTypeTagTrue, OscTypeTagFalse, OscTypeTagNil,
                   OscTypeTagInfinitum, OscTypeTagBeginArray, OscTypeTagEndArray }

NotSerialised == [err |-> -1, size |-> 0, bytes |-> <<>>]
NotParsed == [err |-> -1, msg |-> BlankMessage(0)]
NoSlip == [phase |-> "off"]
NoPkt == [phase |-> "off"]

InitMsg ==
    /\ transportSize = 4 * MsgTransportWords
    /\ oscMessage = OscMessageInitialise(0, <<>>).msg
    /\ added = <<>>
    /\ lastError = 0
    /\ wire = NotSerialised
    /\ parsed = NotParsed
    /\ got = <<>>
    /\ slip = NoSlip
    /\ pkt = NoPkt

Building == wire = NotSerialised
Reading == parsed.err = 0

\* a call of an OscMessageAdd function with result r
Added(r, tag, val) ==
    /\ Building
    /\ oscMessage' = r.msg
    /\ lastError' = r.err
    /\ added' = IF r.err = 0 THEN Append(added, [tag |-> tag, val |-> val])
                ELSE added
    /\ UNCHANGED <<transportSize, wire, parsed, got, slip, pkt>>

MsgInitialise ==
    \E a \in AddressPatterns :
        LET r == OscMessageInitialise(0, a)
        IN  /\ Building
            /\ oscMessage' = r.msg
            /\ lastError' = r.err
            /\ added' = <<>>
            /\ UNCHANGED <<transportSize, wire, parsed, got, slip, pkt>>

MsgAddInt32 ==
    \E v \in Int32Values :
        Added(OscMessageAddInt32(oscMessage, v), OscTypeTagInt32, v)
MsgAddFloat32 ==
    \E v \in Word32Values :
        Added(OscMessageAddFloat32(oscMessage, v), OscTypeTagFloat32, v)
MsgAddString ==
    \E v \in StringValues :
        Added(OscMessageAddString(oscMessage, v), OscTypeTagString, v)
MsgAddBlob ==
    \E v \in BlobValues :
        Added(OscMessageAddBlob(oscMessage, v), OscTypeTagBlob, v)
MsgAddInt64 ==
    \E v \in Word64Values :
        Added(OscMessageAddInt64(oscMessage, v), OscTypeTagInt64, v)
MsgAddTimeTag ==
    \E v \in Word64Values :
        Added(OscMessageAddTimeTag(oscMessage, v), OscTypeTagTimeTag, v)
MsgAddDouble ==
    \E v \in Word64Values :
        Added(OscMessageAddDouble(oscMessage, v), OscTypeTagDouble, v)
MsgAddAlternateString ==
    \E v \in StringValues :
        Added(OscMessageAddAlternateString(oscMessage, v),
              OscTypeTagAlternateString, v)
MsgAddCharacter ==
    \E v \in CharacterValues :
        Added(OscMessageAddCharacter(oscMessage, v), OscTypeTagCharacter, v)
MsgAddRgbaColour ==
    \E v \in Word32Values :
        Added(OscMessageAddRgbaColour(oscMessage, v), OscTypeTagRgbaColour, v)
MsgAddMidiMessage ==
    \E v \in Word32Values :
        Added(OscMessageAddMidiMessage(oscMessage, v), OscTypeTagMidiMessage, v)
MsgAddBool ==
    \E v \in BOOLEAN :
        Added(OscMessageAddBool(oscMessage, v),
              IF v THEN OscTypeTagTrue ELSE OscTypeTagFalse, <<>>)
MsgAddNil == Added(OscMessageAddNil(oscMessage), OscTypeTagNil, <<>>)
MsgAddInfinitum ==
    Added(OscMessageAddInfinitum(oscMessage), OscTypeTagInfinitum, <<>>)
MsgAddBeginArray ==
    Added(OscMessageAddBeginArray(oscMessage), OscTypeTagBeginArray, <<>>)
MsgAddEndArray ==
    Added(OscMessageAddEndArray(oscMessage), OscTypeTagEndArray, <<>>)

\* OscMessageToCharArray into a destination of d bytes
MsgToCharArray ==
    \E d \in 0 .. transportSize :
        LET r == OscMessageToCharArray(oscMessage, d)
        IN  /\ Building
            /\ wire' = r
            /\ lastError' = r.err
            /\ UNCHANGED <<transportSize, oscMessage, added, parsed, got, slip, pkt>>

\* OscMessageInitialiseFromCharArray on the bytes just serialised
MsgInitialiseFromCharArray ==
    /\ wire.err = 0
    /\ parsed = NotParsed
    /\ LET r == OscMessageInitialiseFromCharArray(0, SubSeq(wire.bytes, 1, wire.size))
       IN  /\ parsed' = r
           /\ lastError' = r.err
    /\ UNCHANGED <<transportSize, oscMessage, added, wire, got, slip, pkt>>

\* a call of an OscMessageGet function (or OscMessageSkipArgument) with result r
Read(r, op) ==
    /\ Reading
    /\ parsed' = [parsed EXCEPT !.msg = r.msg]
    /\ lastError' = r.err
    /\ got' = IF r.err = 0
              THEN Append(got, [tag |-> OscMessageGetArgumentType(parsed.msg),
                                val |-> r.val, op |-> op])
              ELSE got
    /\ UNCHANGED <<transportSize, oscMessage, added, wire, slip, pkt>>

MsgGetInt32 == Read(OscMessageGetInt32(parsed.msg), "get")
MsgGetFloat32 == Read(OscMessageGetFloat32(parsed.msg), "get")
MsgGetString ==
    \E d \in DestinationSizes : Read(OscMessageGetString(parsed.msg, d), "get")
MsgGetBlob ==
    \E d \in DestinationSizes : Read(OscMessageGetBlob(parsed.msg, d), "get")
MsgGetInt64 == Read(OscMessageGetInt64(parsed.msg), "get")
MsgGetTimeTag == Read(OscMessageGetTimeTag(parsed.msg), "get")
MsgGetDouble == Read(OscMessageGetDouble(parsed.msg), "get")
MsgGetCharacter == Read(OscMessageGetCharacter(parsed.msg), "get")
MsgGetRgbaColour == Read(OscMessageGetRgbaColour(parsed.msg), "get")
MsgGetMidiMessage == Read(OscMessageGetMidiMessage(parsed.msg), "get")
MsgSkipArgument ==
    LET r == OscMessageSkipArgument(parsed.msg)
    IN  Read([err |-> r.err, msg |-> r.msg, val |-> <<>>], "skip")

NextMsg ==
    \/ MsgInitialise
    \/ MsgAddInt32 \/ MsgAddFloat32 \/ MsgAddString \/ MsgAddBlob
    \/ MsgAddInt64 \/ MsgAddTimeTag \/ MsgAddDouble \/ MsgAddAlternateString
    \/ MsgAddCharacter \/ MsgAddRgbaColour \/ MsgAddMidiMessage
    \/ MsgAddBool \/ MsgAddNil \/ MsgAddInfinitum
    \/ MsgAddBeginArray \/ MsgAddEndArray
    \/ MsgToCharArray
    \/ MsgInitialiseFromCharArray
    \/ MsgGetInt32 \/ MsgGetFloat32 \/ MsgGetString \/ MsgGetBlob
    \/ MsgGetInt64 \/ MsgGetTimeTag \/ MsgGetDouble \/ MsgGetCharacter
    \/ MsgGetRgbaColour \/ MsgGetMidiMessage \/ MsgSkipArgument

SpecMsg == InitMsg /\ [][NextMsg]_vars

--------------------------------------------------------------------------
(* Claims about the message codec.                                        *)

\* every argument was read by the reader of its kind (an argument without
\* payload has no reader and is passed over with OscMessageSkipArgument)
MatchingReads ==
    \A k \in 1 .. Len(got) : got[k].op = "skip" => got[k].tag \in NoPayloadTags

\* the parsed message equals the built one and the reads return what was added
RoundTripHolds ==
    /\ parsed.err = 0
    /\ parsed.msg.oscAddressPattern = oscMessage.oscAddressPattern
    /\ parsed.msg.oscTypeTagString = oscMessage.oscTypeTagString
    /\ parsed.msg.arguments = oscMessage.arguments
    /\ got = <<>> => /\ parsed.msg.oscTypeTagStringIndex = 1
                     /\ parsed.msg.argumentsIndex = 0
    /\ MatchingReads =>
          /\ Len(got) <= Len(added)
          /\ \A k \in 1 .. Len(got) : /\ got[k].tag = added[k].tag
                                      /\ got[k].val = added[k].val

\* C1: a message built by OscMessageInitialise with an address starting with
\* '/' and any successful OscMessageAdd calls survives OscMessageToCharArray
\* followed by OscMessageInitialiseFromCharArray: the parse succeeds, address
\* pattern, type tag string and argument bytes are the same, the cursors are
\* 1 and 0, and the matching OscMessageGet calls return the appended values
\* in the appended order.
C1_MessageRoundTrip == parsed # NotParsed => RoundTripHolds

\* the same for address patterns that do not end with a comma
C1_RoundTripUnlessCommaLast ==
    (parsed # NotParsed
        /\ oscMessage.oscAddressPattern[oscAddressPatternLength(oscMessage)] # Comma)
    => RoundTripHolds

\* every argument of a two-argument message was read back
C1_AllRead ==
    /\ parsed.err = 0 /\ Len(added) = 2 /\ Len(got) = 2 /\ MatchingReads
    /\ added[1].tag = OscTypeTagString /\ added[2].tag = OscTypeTagInt32

--------------------------------------------------------------------------
(* The message builder alone: an application initialises a message, sets  *)
(* or extends its address pattern and adds arguments, in any order, and   *)
(* serialises it into a destination that fits, is one byte short or is    *)
(* as large as a message can be.                                          *)

\* address parts handed to OscMessageSetAddressPattern and
\* OscMessageAppendAddressPattern
AppendedParts == { <<>>, <<LetterA>>, <<Slash, LetterA>> }

\* a call of a function on the address pattern with result r
Addressed(r) ==
    /\ Building
    /\ oscMessage' = r.msg
    /\ lastError' = r.err
    /\ UNCHANGED <<transportSize, added, wire, parsed, got, slip, pkt>>

MsgSetAddressPattern ==
    \E a \in AppendedParts : Addressed(OscMessageSetAddressPattern(oscMessage, a))

MsgAppendAddressPattern ==
    \E a \in AppendedParts :
        Addressed(OscMessageAppendAddressPattern(oscMessage, a))

\* the destination sizes tried for a message
FittedSizes(m) ==
    { d \in { OscMessageGetSize(m) - 1, OscMessageGetSize(m), MAX_OSC_MESSAGE_SIZE } :
        d >= 0 }

MsgToCharArrayFitted ==
    /\ Building
    /\ \E d \in FittedSizes(oscMessage) :
        LET r == OscMessageToCharArray(oscMessage, d)
        IN  /\ wire' = r
            /\ lastError' = r.err
    /\ UNCHANGED <<transportSize, oscMessage, added, parsed, got, slip, pkt>>

MsgAdd ==
    \/ MsgAddInt32 \/ MsgAddFloat32 \/ MsgAddString \/ MsgAddBlob
    \/ MsgAddInt64 \/ MsgAddTimeTag \/ MsgAddDouble \/ MsgAddAlternateString
    \/ MsgAddCharacter \/ MsgAddRgbaColour \/ MsgAddMidiMessage
    \/ MsgAddBool \/ MsgAddNil \/ MsgAddInfinitum
    \/ MsgAddBeginArray \/ MsgAddEndArray

\* The builder is driven with one value for each kind of fixed size and one
\* alternate string; strings and blobs keep every length.
BuildArgument(a) ==
    CASE a.tag = OscTypeTagInt32 -> a.val = 16909060
      [] a.tag \in {OscTypeTagFloat32, OscTypeTagRgbaColour, OscTypeTagMidiMessage}
            -> a.val = <<4, 3, 2, 1>>
      [] a.tag \in {OscTypeTagInt64, OscTypeTagTimeTag, OscTypeTagDouble}
            -> a.val = <<8, 7, 6, 5, 4, 3, 2, 1>>
      [] a.tag = OscTypeTagAlternateString -> Len(a.val) = 3
      [] OTHER -> TRUE

BuildAdd ==
    /\ MsgAdd
    /\ added' # added => BuildArgument(added'[Len(added')])

NextBuild ==
    \/ MsgInitialise
    \/ MsgSetAddressPattern
    \/ MsgAppendAddressPattern
    \/ BuildAdd
    \/ MsgToCharArrayFitted

SpecBuild == InitMsg /\ [][NextBuild]_vars

\* the number of type tags after the comma
TagCount(m) == oscTypeTagStringLength(m) - 1

\* n bytes with the padding that brings them to a multiple of 4
Padded(n) == 4 * ((n + 3) \div 4)

\* what an OscMessageAdd call with result r, for an argument of size bytes
\* on the wire, must have done to message m: succeed exactly when the
\* argument fits, then add one tag and size bytes; otherwise change neither
\* the type tag string nor argumentsSize
AppendSymmetry(m, r, size) ==
    LET fits == /\ TagCount(m) + 1 <= MAX_NUMBER_OF_ARGUMENTS
                /\ argumentsSize(m) + size <= MAX_ARGUMENTS_SIZE
    IN  IF fits
        THEN /\ r.err = 0
             /\ TagCount(r.msg) = TagCount(m) + 1
             /\ argumentsSize(r.msg) = argumentsSize(m) + size
        ELSE /\ r.err # 0
             /\ r.msg.oscTypeTagString = m.oscTypeTagString
             /\ argumentsSize(r.msg) = argumentsSize(m)

\* C13: append symmetry and capacity refusal.  On every message the builder
\* reaches, a successful OscMessageAdd call adds exactly one tag and exactly
\* the kind's wire size to argumentsSize (4 for i, f, c, r, m; 8 for h, t, d;
\* the string's length + 1 padded to a multiple of 4 for s, S; 4 + the blob's
\* length padded for b; 0 for T, F, N, I, [, ]); a call that would exceed
\* MAX_NUMBER_OF_ARGUMENTS or MAX_ARGUMENTS_SIZE returns non-zero and leaves
\* the tag count, the type tag string and argumentsSize as they were.
C13_AppendSymmetry ==
    LET m == oscMessage
    IN  /\ \A v \in Int32Values : AppendSymmetry(m, OscMessageAddInt32(m, v), 4)
        /\ \A v \in Word32Values :
              /\ AppendSymmetry(m, OscMessageAddFloat32(m, v), 4)
              /\ AppendSymmetry(m, OscMessageAddRgbaColour(m, v), 4)
              /\ AppendSymmetry(m, OscMessageAddMidiMessage(m, v), 4)
        /\ \A v \in CharacterValues :
              AppendSymmetry(m, OscMessageAddCharacter(m, v), 4)
        /\ \A v \in Word64Values :
              /\ AppendSymmetry(m, OscMessageAddInt64(m, v), 8)
              /\ AppendSymmetry(m, OscMessageAddTimeTag(m, v), 8)
              /\ AppendSymmetry(m, OscMessageAddDouble(m, v), 8)
        /\ \A v \in StringValues :
              /\ AppendSymmetry(m, OscMessageAddString(m, v), Padded(Len(v) + 1))
              /\ AppendSymmetry(m, OscMessageAddAlternateString(m, v),
                                Padded(Len(v) + 1))
        /\ \A v \in BlobValues :
              AppendSymmetry(m, OscMessageAddBlob(m, v), 4 + Padded(Len(v)))
        /\ \A v \in BOOLEAN : AppendSymmetry(m, OscMessageAddBool(m, v), 0)
        /\ AppendSymmetry(m, OscMessageAddNil(m), 0)
        /\ AppendSymmetry(m, OscMessageAddInfinitum(m), 0)
        /\ AppendSymmetry(m, OscMessageAddBeginArray(m), 0)
        /\ AppendSymmetry(m, OscMessageAddEndArray(m), 0)

\* a string was added, and then an argument that did not fit in the room left
\* for arguments was refused
C13_RefusedForSize ==
    /\ Building
    /\ lastError # 0
    /\ Len(added) = 1 /\ added[1].tag = OscTypeTagString
    /\ TagCount(oscMessage) = 1
    /\ argumentsSize(oscMessage) = 8

\* C18: builder invariants.  In every state reached through
\* OscMessageInitialise, OscMessageSetAddressPattern,
\* OscMessageAppendAddressPattern and the OscMessageAdd functions, whether
\* the calls succeeded or failed: oscAddressPatternLength is at most
\* MAX_OSC_ADDRESS_PATTERN_LENGTH and a pattern that is not empty starts
\* with '/'; oscTypeTagString starts with ',' and has its null at index
\* oscTypeTagStringLength; the number of tags is at most
\* MAX_NUMBER_OF_ARGUMENTS and is the number of successful OscMessageAdd
\* calls; argumentsSize is at most MAX_ARGUMENTS_SIZE and a multiple of 4.
C18_BuilderInvariants ==
    /\ oscAddressPatternLength(oscMessage) <= MAX_OSC_ADDRESS_PATTERN_LENGTH
    /\ oscAddressPatternLength(oscMessage) > 0
       => At(oscMessage.oscAddressPattern, 0) = Slash
    /\ TypeTagAt(oscMessage, 0) = Comma
    /\ TypeTagAt(oscMessage, oscTypeTagStringLength(oscMessage)) = 0
    /\ \A i \in 1 .. TagCount(oscMessage) : TypeTagAt(oscMessage, i) # 0
    /\ TagCount(oscMessage) <= MAX_NUMBER_OF_ARGUMENTS
    /\ TagCount(oscMessage) = Len(added)
    /\ \A i \in 1 .. Len(added) : TypeTagAt(oscMessage, i) = added[i].tag
    /\ argumentsSize(oscMessage) <= MAX_ARGUMENTS_SIZE
    /\ argumentsSize(oscMessage) % 4 = 0

\* the address pattern was cut at its greatest length, every tag is taken,
\* no fixed-size argument fits any more and the latest call failed
C18_FullAndRefused ==
    /\ Building
    /\ lastError # 0
    /\ oscAddressPatternLength(oscMessage) = MAX_OSC_ADDRESS_PATTERN_LENGTH
    /\ TagCount(oscMessage) = MAX_NUMBER_OF_ARGUMENTS
    /\ Len(added) = MAX_NUMBER_OF_ARGUMENTS
    /\ argumentsSize(oscMessage) + SizeofOscArgument32 > MAX_ARGUMENTS_SIZE

\* the message with the first byte of its address pattern overwritten by the
\* application
FirstByteOverwritten(m) ==
    IF oscAddressPatternLength(m) = 0 THEN m
    ELSE [m EXCEPT !.oscAddressPattern[1] = LetterA]

\* the bytes the message needs: address pattern and type tag string, each
\* with its null and padding, and the arguments
BytesNeeded(m) ==
    Padded(oscAddressPatternLength(m) + 1) + Padded(oscTypeTagStringLength(m) + 1)
        + argumentsSize(m)

\* what OscMessageToCharArray must do with message m and a destination of
\* destinationSize bytes
SerialiseErrors(m, destinationSize) ==
    LET r == OscMessageToCharArray(m, destinationSize)
    IN  /\ Len(r.bytes) <= destinationSize
        /\ ( \/ oscAddressPatternLength(m) = 0
             \/ At(m.oscAddressPattern, 0) # Slash
             \/ BytesNeeded(m) > destinationSize )
           => (r.err # 0 /\ r.size = 0)

\* C23: message serialise errors.  OscMessageToCharArray returns non-zero
\* and reports size 0 when the address length is 0, when the first address
\* byte is not '/', or when the address, the type tag string (each with its
\* null and padding) or the argument region would not fit in destinationSize;
\* it never writes destination[k] for k >= destinationSize.
C23_MessageSerialiseErrors ==
    /\ Building
       => \A destinationSize \in 0 .. MAX_OSC_MESSAGE_SIZE :
             /\ SerialiseErrors(oscMessage, destinationSize)
             /\ SerialiseErrors(FirstByteOverwritten(oscMessage), destinationSize)
    /\ ~Building
       => /\ wire \in { OscMessageToCharArray(oscMessage, destinationSize) :
                            destinationSize \in FittedSizes(oscMessage) }
          /\ wire.err # 0 => wire.size = 0

\* a message with an argument was serialised into a destination one byte
\* short: the call failed after it wrote the address pattern and type tags
C23_RefusedOneByteShort ==
    /\ wire.err > 0
    /\ wire.size = 0
    /\ argumentsSize(oscMessage) > 0
    /\ Len(wire.bytes)
         = Padded(oscAddressPatternLength(oscMessage) + 1)
             + Padded(oscTypeTagStringLength(oscMessage) + 1)

Zeros(n) == [i \in 1 .. n |-> 0]

\* an OSC string on the wire: the characters, then 1 to 4 zero bytes up to a
\* multiple of 4
OscStringOnWire(str) == str \o Zeros(4 - (Len(str) % 4))

\* byte i (0 the least significant) of a natural number
ByteOf(n, i) == (n \div (256 ^ i)) % 256

\* a signed 32-bit value most significant byte first, in two's complement
Int32OnWire(v) ==
    IF v >= 0 THEN <<ByteOf(v, 3), ByteOf(v, 2), ByteOf(v, 1), ByteOf(v, 0)>>
    ELSE <<255 - ByteOf(-v - 1, 3), 255 - ByteOf(-v - 1, 2),
           255 - ByteOf(-v - 1, 1), 255 - ByteOf(-v - 1, 0)>>

\* a byteStruct <<byte0, byte1, ...>> most significant byte first
Reversed(bytes) == [i \in 1 .. Len(bytes) |-> bytes[Len(bytes) + 1 - i]]

\* an argument that was added, on the wire
ArgumentOnWire(a) ==
    CASE a.tag = OscTypeTagInt32 -> Int32OnWire(a.val)
      [] a.tag \in {OscTypeTagString, OscTypeTagAlternateString}
            -> OscStringOnWire(a.val)
      [] a.tag = OscTypeTagBlob
            -> Int32OnWire(Len(a.val)) \o a.val \o Zeros((4 - (Len(a.val) % 4)) % 4)
      [] a.tag = OscTypeTagCharacter -> <<0, 0, 0, a.val>>
      [] a.tag \in {OscTypeTagTrue, OscTypeTagFalse, OscTypeTagNil,
                    OscTypeTagInfinitum, OscTypeTagBeginArray, OscTypeTagEndArray}
            -> <<>>
      [] OTHER -> Reversed(a.val)

RECURSIVE ArgumentsOnWire(_)
ArgumentsOnWire(args) ==
    IF args = <<>> THEN <<>>
    ELSE ArgumentOnWire(Head(args)) \o ArgumentsOnWire(Tail(args))

\* the message with the given address pattern and arguments, on the wire
MessageOnWire(oscAddressPattern, args) ==
    OscStringOnWire(oscAddressPattern)
        \o OscStringOnWire(<<Comma>> \o [i \in 1 .. Len(args) |-> args[i].tag])
        \o ArgumentsOnWire(args)

\* C24: message wire format.  A successful OscMessageToCharArray writes
\* exactly the address bytes followed by 1 to 4 zero bytes up to a multiple
\* of 4, then the type tag string (',' followed by one tag per argument in
\* append order) followed by 1 to 4 zero bytes up to a multiple of 4, then
\* the argument region, in which each int32 and blob length is big-endian,
\* each string is null-terminated and zero-padded to 4 and each blob is its
\* length, its bytes and zero padding to 4.
C24_MessageWireFormat ==
    LET r == OscMessageToCharArray(oscMessage, MAX_OSC_MESSAGE_SIZE)
        onWire == MessageOnWire(oscMessage.oscAddressPattern, added)
    IN  /\ r.err = 0 => (r.bytes = onWire /\ r.size = Len(onWire))
        /\ wire.err = 0 => (wire.bytes = onWire /\ wire.size = Len(onWire))

\* the message "/a" with the int32 0x01020304 and the string "a" was
\* serialised
C24_Int32AndStringSerialised ==
    /\ wire.err = 0
    /\ Len(added) = 2
    /\ added[1].tag = OscTypeTagInt32
    /\ added[2] = [tag |-> OscTypeTagString, val |-> <<LetterA>>]
    /\ wire.bytes = << Slash, LetterA, 0, 0,
                       Comma, OscTypeTagInt32, OscTypeTagString, 0,
                       1, 2, 3, 4,
                       LetterA, 0, 0, 0 >>

\* the message "/a" with a blob of one byte was serialised
C24_BlobSerialised ==
    /\ wire.err = 0
    /\ added = << [tag |-> OscTypeTagBlob, val |-> <<0>>] >>
    /\ wire.bytes = << Slash, LetterA, 0, 0, Comma, OscTypeTagBlob, 0, 0,
                       0, 0, 0, 1, 0, 0, 0, 0 >>

\* C31: a failed address update is a no-op.  When
\* OscMessageAppendAddressPattern or OscMessageSetAddressPattern returns
\* non-zero (the given string does not start with '/', or the address would
\* be longer than MAX_OSC_ADDRESS_PATTERN_LENGTH), the address pattern of the
\* message and oscAddressPatternLength are the same as before the call.
C31_FailedAddressUpdateIsNoOp ==
    Building
    => \A a \in AppendedParts :
        \A r \in { OscMessageSetAddressPattern(oscMessage, a),
                   OscMessageAppendAddressPattern(oscMessage, a) } :
            r.err # 0 => r.msg.oscAddressPattern = oscMessage.oscAddressPattern

\* the same for OscMessageAppendAddressPattern with parts that do not start
\* with '/'
C31_RefusedPartsKeepAddress ==
    Building
    => \A a \in AppendedParts :
        LET r == OscMessageAppendAddressPattern(oscMessage, a)
        IN  (a = <<>> \/ Head(a) # OscContentsTypeMessage)
            => (r.err # 0 /\ r.msg = oscMessage)

\* the call that reads an argument that was added: the OscMessageGet function
\* of its kind, with a destination as large as a message, and
\* OscMessageSkipArgument for the tags without payload
ReadMatching(m, a) ==
    CASE a.tag = OscTypeTagInt32 -> OscMessageGetInt32(m)
      [] a.tag = OscTypeTagFloat32 -> OscMessageGetFloat32(m)
      [] a.tag \in {OscTypeTagString, OscTypeTagAlternateString}
            -> OscMessageGetString(m, MAX_OSC_MESSAGE_SIZE)
      [] a.tag = OscTypeTagBlob -> OscMessageGetBlob(m, MAX_OSC_MESSAGE_SIZE)
      [] a.tag = OscTypeTagInt64 -> OscMessageGetInt64(m)
      [] a.tag = OscTypeTagTimeTag -> OscMessageGetTimeTag(m)
      [] a.tag = OscTypeTagDouble -> OscMessageGetDouble(m)
      [] a.tag = OscTypeTagCharacter -> OscMessageGetCharacter(m)
      [] a.tag = OscTypeTagRgbaColour -> OscMessageGetRgbaColour(m)
      [] a.tag = OscTypeTagMidiMessage -> OscMessageGetMidiMessage(m)
      [] OTHER -> OscMessageSkipArgument(m)

\* the reads of the arguments k, k + 1, ... of the message succeed and leave
\* the cursors as the arguments read so far require; m is the message after
\* k - 1 reads
RECURSIVE LockStepFrom(_, _)
LockStepFrom(m, k) ==
    IF k > Len(added)
    THEN /\ m.argumentsIndex = argumentsSize(m)
         /\ ~OscMessageIsArgumentAvailable(m)
    ELSE LET r == ReadMatching(m, added[k])
         IN  /\ r.err = 0
             /\ r.msg.oscTypeTagStringIndex = 1 + k
             /\ r.msg.argumentsIndex = Len(ArgumentsOnWire(SubSeq(added, 1, k)))
             /\ LockStepFrom(r.msg, k + 1)

\* C36: reader lock-step.  For any message built from a sequence of
\* successful OscMessageAdd calls, reading the arguments in order with the
\* matching OscMessageGet function (and OscMessageSkipArgument for the tags
\* T, F, N, I, [ and ] without payload) succeeds at every step; after the
\* k-th step oscTypeTagStringIndex = 1 + k and argumentsIndex is the sum of
\* the wire sizes of the first k arguments; after the last step
\* argumentsIndex = argumentsSize and OscMessageIsArgumentAvailable is false.
C36_ReaderLockStep == LockStepFrom(oscMessage, 1)

\* a blob of one byte and a nil were added; the blob reads as 8 bytes
C36_BlobAndNilBuilt ==
    /\ Len(added) = 2
    /\ added[1].tag = OscTypeTagBlob /\ Len(added[1].val) = 1
    /\ added[2].tag = OscTypeTagNil
    /\ argumentsSize(oscMessage) = 8
    /\ ReadMatching(oscMessage, added[1]).msg.argumentsIndex = 8

\* the first argument of the message is a string that was added
StringBuilt ==
    /\ Len(added) >= 1
    /\ added[1].tag \in {OscTypeTagString, OscTypeTagAlternateString}

\* the greatest k for which OscMessageGetString writes destination[k], -1
\* when it writes nothing: the do-while loop stores a byte at
\* destination[destinationIndex] and only then compares the incremented index
\* with destinationSize
LastDestinationWritten(m, destinationSize) ==
    IF \/ /\ TypeTagAt(m, m.oscTypeTagStringIndex) # OscTypeTagString
          /\ TypeTagAt(m, m.oscTypeTagStringIndex) # OscTypeTagAlternateString
       \/ m.argumentsIndex + 4 > argumentsSize(m)
       \/ 4 > destinationSize
    THEN -1
    ELSE Len(CopyString(m, m.argumentsIndex, <<>>, destinationSize).str)

\* C38: the string read respects the buffer of the caller.
\* OscMessageGetString never writes destination[k] for k >= destinationSize;
\* when the string together with its terminating null does not fit in
\* destinationSize bytes it returns non-zero, and when it fits exactly it
\* succeeds.
C38_StringReadRespectsDestination ==
    StringBuilt
    => \A destinationSize \in 0 .. MAX_OSC_MESSAGE_SIZE :
        LET r == OscMessageGetString(oscMessage, destinationSize)
        IN  /\ LastDestinationWritten(oscMessage, destinationSize) < destinationSize
            /\ Len(added[1].val) + 1 > destinationSize => r.err # 0
            /\ Len(added[1].val) + 1 = destinationSize => r.err = 0

\* what the read does: a destination of fewer than 4 bytes is refused
\* whatever the string; otherwise the read succeeds exactly when the string
\* and its null fit, and a refused read has written destination[destinationSize]
C38_DestinationOfFourOrMore ==
    StringBuilt
    => \A destinationSize \in 0 .. MAX_OSC_MESSAGE_SIZE :
        LET r == OscMessageGetString(oscMessage, destinationSize)
            last == LastDestinationWritten(oscMessage, destinationSize)
        IN  IF destinationSize < 4 THEN r.err # 0 /\ last = -1
            ELSE IF Len(added[1].val) + 1 <= destinationSize
            THEN r.err = 0 /\ r.val = added[1].val /\ last = Len(added[1].val)
            ELSE r.err # 0 /\ last = destinationSize

\* the address pattern of the message is not empty and starts with '/'
Addressable(m) ==
    /\ oscAddressPatternLength(m) > 0
    /\ Head(m.oscAddressPattern) = OscContentsTypeMessage

\* C39: OscMessageGetSize predicts the serialisation.  For every reachable
\* message whose address is non-empty and starts with '/',
\* OscMessageToCharArray succeeds if and only if destinationSize >=
\* OscMessageGetSize(message), and on success the reported size equals
\* OscMessageGetSize(message).
C39_GetSizePredictsSerialisation ==
    /\ (Building /\ Addressable(oscMessage))
       => \A destinationSize \in 0 .. MAX_OSC_MESSAGE_SIZE :
            LET r == OscMessageToCharArray(oscMessage, destinationSize)
            IN  /\ r.err = 0 <=> destinationSize >= OscMessageGetSize(oscMessage)
                /\ r.err = 0 => r.size = OscMessageGetSize(oscMessage)
    /\ ~Building
       => /\ wire.err = 0 => wire.size = OscMessageGetSize(oscMessage)
          /\ Addressable(oscMessage)
             => \E destinationSize \in FittedSizes(oscMessage) :
                   /\ wire = OscMessageToCharArray(oscMessage, destinationSize)
                   /\ wire.err = 0
                        <=> destinationSize >= OscMessageGetSize(oscMessage)

\* a message of 16 bytes, with a blob and a tag without payload, was
\* serialised into a destination of exactly its size
C39_SerialisedIntoExactSize ==
    /\ ~Building
    /\ wire.err = 0
    /\ Len(wire.bytes) = OscMessageGetSize(oscMessage)
    /\ OscMessageGetSize(oscMessage) = 16
    /\ Len(added) = 2
    /\ added[1].tag = OscTypeTagBlob
    /\ added[2].tag = OscTypeTagTrue
    /\ OscMessageToCharArray(oscMessage, 15).err # 0

--------------------------------------------------------------------------
(* The message reader alone: an application is handed a message parsed    *)
(* from bytes that came off the wire, well-formed or not, and reads its   *)
(* arguments with any OscMessageGet function in any order.                *)

\* the type tags of received messages: every tag that has an OscMessageGet
\* function and one tag without payload
ReadTags ==
    { OscTypeTagInt32, OscTypeTagFloat32, OscTypeTagString, OscTypeTagBlob,
      OscTypeTagInt64, OscTypeTagTimeTag, OscTypeTagDouble,
      OscTypeTagAlternateString, OscTypeTagCharacter, OscTypeTagRgbaColour,
      OscTypeTagMidiMessage, OscTypeTagTrue }

\* the tags that follow the first one: a payload of 4 bytes, a string and a
\* blob
LaterTags == { OscTypeTagInt32, OscTypeTagString, OscTypeTagBlob }

\* the 4-byte words of received argument regions: zero (an empty string, the
\* size of an empty blob), one (the size of a blob that needs padding), the
\* string "a", and a negative blob size (four characters without a null)
ArgumentWords ==
    { <<0, 0, 0, 0>>, <<0, 0, 0, 1>>, <<LetterA, 0, 0, 0>>,
      <<255, 255, 255, 252>> }

\* what the reader may find where the parser never wrote
Residues == { 0, OscTypeTagInt32 }

\* every sequence of up to n type tags
RECURSIVE TagStrings(_)
TagStrings(n) ==
    IF n = 0 THEN { <<>> }
    ELSE IF n = 1 THEN { <<>> } \cup { <<g>> : g \in ReadTags }
    ELSE TagStrings(n - 1)
         \cup { Append(t, g) : t \in TagStrings(n - 1) \ { <<>> },
                               g \in LaterTags }

\* every argument region of up to n words
RECURSIVE ArgumentRegions(_)
ArgumentRegions(n) ==
    IF n = 0 THEN { <<>> }
    ELSE ArgumentRegions(n - 1)
         \cup { a \o w : a \in ArgumentRegions(n - 1), w \in ArgumentWords }

\* the bytes of a message with address "/", type tags t and argument bytes a
ReceivedMessage(t, a) ==
    <<Slash, 0, 0, 0>>
        \o TerminateOscString(<<Comma>> \o t, MAX_OSC_MESSAGE_SIZE).str \o a

InitRead ==
    /\ transportSize = 4 * MsgTransportWords
    /\ oscMessage = BlankMessage(0)
    /\ added = <<>>
    /\ lastError = 0
    /\ got = <<>>
    /\ slip = NoSlip
    /\ pkt = NoPkt
    /\ \E t \in TagStrings(MAX_NUMBER_OF_ARGUMENTS),
          a \in ArgumentRegions(MAX_ARGUMENTS_SIZE \div 4),
          residue \in Residues :
        LET source == ReceivedMessage(t, a)
        IN  /\ wire = [err |-> 0, size |-> Len(source), bytes |-> source]
            /\ parsed = OscMessageInitialiseFromCharArray(residue, source)

\* a call of an OscMessageGet function (or OscMessageSkipArgument) with
\* result r, of which the application keeps the return value only
Tried(r) ==
    /\ Reading
    /\ parsed' = [parsed EXCEPT !.msg = r.msg]
    /\ lastError' = r.err
    /\ UNCHANGED <<transportSize, oscMessage, added, wire, got, slip, pkt>>

ReadInt32 == Tried(OscMessageGetInt32(parsed.msg))
ReadFloat32 == Tried(OscMessageGetFloat32(parsed.msg))
ReadString ==
    \E d \in DestinationSizes : Tried(OscMessageGetString(parsed.msg, d))
ReadBlob ==
    \E d \in DestinationSizes : Tried(OscMessageGetBlob(parsed.msg, d))
ReadInt64 == Tried(OscMessageGetInt64(parsed.msg))
ReadTimeTag == Tried(OscMessageGetTimeTag(parsed.msg))
ReadDouble == Tried(OscMessageGetDouble(parsed.msg))
ReadCharacter == Tried(OscMessageGetCharacter(parsed.msg))
ReadRgbaColour == Tried(OscMessageGetRgbaColour(parsed.msg))
ReadMidiMessage == Tried(OscMessageGetMidiMessage(parsed.msg))
ReadSkipArgument == Tried(OscMessageSkipArgument(parsed.msg))

NextRead ==
    \/ ReadInt32 \/ ReadFloat32 \/ ReadString \/ ReadBlob
    \/ ReadInt64 \/ ReadTimeTag \/ ReadDouble \/ ReadCharacter
    \/ ReadRgbaColour \/ ReadMidiMessage \/ ReadSkipArgument

SpecRead == InitRead /\ [][NextRead]_vars

\* what an OscMessageGet call with result r that consumed so many bytes must
\* have done to message m: on failure nothing, on success the tag cursor is
\* one further and the payload cursor is past the bytes consumed
CursorDiscipline(m, r, consumed) ==
    IF r.err # 0 THEN r.msg = m
    ELSE r.msg = [m EXCEPT !.oscTypeTagStringIndex = @ + 1,
                           !.argumentsIndex = @ + consumed]

\* the same for an argument of a fixed size, which is read exactly when its
\* tag is at the cursor and size bytes remain
FixedDiscipline(m, r, tag, size) ==
    /\ CursorDiscipline(m, r, size)
    /\ r.err = 0 <=> /\ TypeTagAt(m, m.oscTypeTagStringIndex) = tag
                     /\ argumentsSize(m) - m.argumentsIndex >= size

\* C14: reader cursor discipline.  On every message the reader reaches,
\* every OscMessageGet call that returns non-zero (the tag at the cursor is
\* not of the kind, too few payload bytes remain or the destination is too
\* small) leaves oscTypeTagStringIndex and argumentsIndex as they were, and
\* a successful call advances the tag cursor by exactly 1 and the payload
\* cursor by exactly the bytes consumed: 4 or 8 for the kinds of fixed size,
\* the string with its null padded to a multiple of 4, the blob with its
\* size prefix and padding.
C14_ReaderCursorDiscipline ==
    Reading =>
    LET m == parsed.msg
    IN  /\ FixedDiscipline(m, OscMessageGetInt32(m), OscTypeTagInt32, 4)
        /\ FixedDiscipline(m, OscMessageGetFloat32(m), OscTypeTagFloat32, 4)
        /\ FixedDiscipline(m, OscMessageGetCharacter(m), OscTypeTagCharacter, 4)
        /\ FixedDiscipline(m, OscMessageGetRgbaColour(m), OscTypeTagRgbaColour, 4)
        /\ FixedDiscipline(m, OscMessageGetMidiMessage(m), OscTypeTagMidiMessage, 4)
        /\ FixedDiscipline(m, OscMessageGetInt64(m), OscTypeTagInt64, 8)
        /\ FixedDiscipline(m, OscMessageGetTimeTag(m), OscTypeTagTimeTag, 8)
        /\ FixedDiscipline(m, OscMessageGetDouble(m), OscTypeTagDouble, 8)
        /\ \A d \in DestinationSizes :
              LET r == OscMessageGetString(m, d)
              IN  /\ CursorDiscipline(m, r, Padded(Len(r.val) + 1))
                  /\ r.err = 0 => Len(r.val) + 1 <= d
        /\ \A d \in DestinationSizes :
              LET r == OscMessageGetBlob(m, d)
              IN  /\ CursorDiscipline(m, r, 4 + Padded(Len(r.val)))
                  /\ r.err = 0 => Len(r.val) <= d

\* after an int32 was read, a call failed on the string that follows it
C14_FailedAfterRead ==
    /\ Reading
    /\ lastError # 0
    /\ parsed.msg.oscTypeTagString = <<Comma, OscTypeTagInt32, OscTypeTagString>>
    /\ parsed.msg.oscTypeTagStringIndex = 2
    /\ parsed.msg.argumentsIndex = 4
    /\ argumentsSize(parsed.msg) = 8


\* the tag at the cursor is a string tag and the string read is made
StringAhead(m) ==
    /\ TypeTagAt(m, m.oscTypeTagStringIndex)
         \in {OscTypeTagString, OscTypeTagAlternateString}
    /\ m.argumentsIndex + 4 <= argumentsSize(m)

\* a null lies between the payload cursor and the end of the argument region
NullInRegion(m) ==
    \E k \in m.argumentsIndex .. argumentsSize(m) - 1 : At(m.arguments, k) = 0

\* the greatest k for which OscMessageGetString reads arguments[k]: the
\* do-while loop reads arguments[argumentsIndex] once for each character it
\* copies and once more for the loop test, which moves the index on
LastArgumentRead(m, destinationSize) ==
    LET c == CopyString(m, m.argumentsIndex, <<>>, destinationSize)
    IN  IF c.err = 0 THEN c.ai - 1 ELSE c.ai

\* what OscMessageGetString must do with message m
StringReadBounded(m, destinationSize) ==
    LET r == OscMessageGetString(m, destinationSize)
    IN  /\ ~NullInRegion(m) => (r.err # 0 /\ r.msg = m)
        /\ r.msg.argumentsIndex <= argumentsSize(m)
        /\ (StringAhead(m) /\ destinationSize >= 4)
           => LastArgumentRead(m, destinationSize) < argumentsSize(m)

\* C26: the string read is bounded by the argument region.
\* OscMessageGetString returns non-zero, with both cursors unchanged, when
\* there is no null byte between the payload cursor and the end of the
\* argument region; it never reads arguments[k] for k >= argumentsSize and
\* never leaves argumentsIndex greater than argumentsSize.
C26_StringReadBounded ==
    Reading
    => \A destinationSize \in DestinationSizes :
          StringReadBounded(parsed.msg, destinationSize)

\* the same for the reads that have a null ahead in the argument region
C26_BoundedWithNullInRegion ==
    (Reading /\ NullInRegion(parsed.msg))
    => \A destinationSize \in DestinationSizes :
          StringReadBounded(parsed.msg, destinationSize)


\* the tag at the cursor is 'b' and the 4 bytes of a size are ahead
BlobAhead(m) ==
    /\ TypeTagAt(m, m.oscTypeTagStringIndex) = OscTypeTagBlob
    /\ m.argumentsIndex + 4 <= argumentsSize(m)

\* the first byte of the size ahead has the sign bit set
NegativeSizeAhead(m) == At(m.arguments, m.argumentsIndex) >= 128

\* C27: a negative blob size is rejected.  When the tag at the cursor is 'b'
\* and the 4-byte big-endian size at the payload cursor is negative as a
\* signed 32-bit value, OscMessageGetBlob returns non-zero, hands back no
\* blob size or bytes and leaves both cursors unchanged.
C27_NegativeBlobSizeRejected ==
    (Reading /\ BlobAhead(parsed.msg) /\ NegativeSizeAhead(parsed.msg))
    => \A destinationSize \in DestinationSizes :
          LET r == OscMessageGetBlob(parsed.msg, destinationSize)
          IN  /\ r.err # 0
              /\ r.val = <<>>
              /\ r.msg = parsed.msg

\* an int32 was read, the blob behind it has the size -4 and the latest call
\* failed
C27_NegativeSizeRefused ==
    /\ Reading
    /\ lastError # 0
    /\ parsed.msg.oscTypeTagString = <<Comma, OscTypeTagInt32, OscTypeTagBlob>>
    /\ parsed.msg.oscTypeTagStringIndex = 2
    /\ parsed.msg.argumentsIndex = 4
    /\ argumentsSize(parsed.msg) = 8
    /\ SubSeq(parsed.msg.arguments, 5, 8) = <<255, 255, 255, 252>>


\* the tag cursor is inside the type tag string, at a tag
AtTag(m) == m.oscTypeTagStringIndex < oscTypeTagStringLength(m)

\* C28: argument_available is exact.  After any sequence of parse, get and
\* skip operations OscMessageIsArgumentAvailable is true if and only if
\* oscTypeTagStringIndex < oscTypeTagStringLength, that is, the tag cursor
\* points to a tag character that is not the null; OscMessageGetArgumentType
\* returns that character, or the null character when no argument is
\* available, and changes no cursor.
C28_ArgumentAvailableExact ==
    Reading
    => LET m == parsed.msg
       IN  /\ OscMessageIsArgumentAvailable(m) <=> AtTag(m)
           /\ AtTag(m) <=> /\ m.oscTypeTagStringIndex <= oscTypeTagStringLength(m)
                           /\ TypeTagAt(m, m.oscTypeTagStringIndex) # 0
           /\ OscMessageGetArgumentType(m)
                = IF AtTag(m) THEN At(m.oscTypeTagString, m.oscTypeTagStringIndex)
                  ELSE 0

\* both arguments of a message were read and none is available
C28_AllArgumentsRead ==
    /\ Reading
    /\ lastError = 0
    /\ oscTypeTagStringLength(parsed.msg) = 3
    /\ parsed.msg.oscTypeTagStringIndex = 3
    /\ parsed.msg.argumentsIndex = 8
    /\ ~OscMessageIsArgumentAvailable(parsed.msg)

\* C29: skip fails at the end of the type tag string.
\* OscMessageSkipArgument returns non-zero and leaves oscTypeTagStringIndex
\* unchanged whenever no argument is available, so that after any sequence
\* of get and skip calls the tag cursor never exceeds oscTypeTagStringLength.
C29_SkipFailsAtEnd ==
    Reading
    => LET m == parsed.msg
           r == OscMessageSkipArgument(m)
       IN  /\ ~OscMessageIsArgumentAvailable(m)
              => /\ r.err # 0
                 /\ r.msg.oscTypeTagStringIndex = m.oscTypeTagStringIndex
           /\ m.oscTypeTagStringIndex <= oscTypeTagStringLength(m)

\* the same once the tag cursor is past the null of the type tag string
C29_SkipFailsPastEnd ==
    Reading
    => LET m == parsed.msg
           r == OscMessageSkipArgument(m)
       IN  m.oscTypeTagStringIndex > oscTypeTagStringLength(m)
           => (r.err # 0 /\ r.msg = m)

\* C30: skip leaves the payload cursor alone.  A successful
\* OscMessageSkipArgument advances oscTypeTagStringIndex by exactly 1 and
\* leaves argumentsIndex, argumentsSize and the argument bytes unchanged,
\* for every kind of tag, those with a payload included.
C30_SkipKeepsPayloadCursor ==
    Reading
    => LET m == parsed.msg
           r == OscMessageSkipArgument(m)
       IN  r.err = 0
           => /\ r.msg.oscTypeTagStringIndex = m.oscTypeTagStringIndex + 1
              /\ r.msg.argumentsIndex = m.argumentsIndex
              /\ r.msg.arguments = m.arguments
              /\ r.msg = [m EXCEPT !.oscTypeTagStringIndex = @ + 1]

\* an int32 with its 4 bytes of payload was skipped: the tag cursor is behind
\* it and the payload cursor is where it was
C30_Int32Skipped ==
    /\ Reading
    /\ lastError = 0
    /\ oscTypeTagStringLength(parsed.msg) = 3
    /\ At(parsed.msg.oscTypeTagString, 1) = OscTypeTagInt32
    /\ parsed.msg.oscTypeTagStringIndex = 2
    /\ parsed.msg.argumentsIndex = 0
    /\ argumentsSize(parsed.msg) = 8

--------------------------------------------------------------------------
(* The SLIP framer driven by an application: bytes arrive from the serial *)
(* line one at a time; at some point the sender encodes one packet and    *)
(* its frame is fed to the decoder.                                       *)

\* raw bytes received before the encoded frame
MaxRawBytes == 2

\* the byte values of packets: the two that are escaped, the two that follow
\* an ESC in a frame, and an ordinary one
SlipBytes == { SLIP_END, SLIP_ESC, SLIP_ESC_END, SLIP_ESC_ESC, LetterA }

\* the byte values received raw; the ordinary one is in no packet
RawBytes == { SLIP_END, SLIP_ESC, LetterB }

\* what is known of the latest call of OscSlipDecoderProcessByte before any
\* call was made
NoCall == [ boundary |-> TRUE, byte |-> 0, err |-> -1, packets |-> <<>> ]

\* the latest call of OscSlipDecoderProcessByte: whether nothing had been
\* received since the last END, the byte, the return value r.err and the
\* packets r.packets handed to the handler
Called(boundary, byte, r) ==
    [ boundary |-> boundary, byte |-> byte, err |-> r.err,
      packets |-> r.packets ]

\* every packet of n bytes
RECURSIVE PacketsOfSize(_)
PacketsOfSize(n) ==
    IF n = 0 THEN { <<>> }
    ELSE { Append(q, b) : q \in PacketsOfSize(n - 1), b \in SlipBytes }

SlipPackets == UNION { PacketsOfSize(n) : n \in 0 .. MAX_OSC_PACKET_SIZE }

InitSlip ==
    /\ transportSize = SlipTransportSize
    /\ oscMessage = BlankMessage(0)
    /\ added = <<>>
    /\ lastError = 0
    /\ wire = NotSerialised
    /\ parsed = NotParsed
    /\ got = <<>>
    /\ pkt = NoPkt
    /\ slip = [ decoder |-> OscSlipDecoderInitialise,
                raw |-> 0,             \* raw bytes received so far
                last |-> NoCall,       \* the latest call on the decoder
                discarded |-> FALSE,   \* the latest call on a raw byte
                                       \* returned non-zero
                boundary |-> TRUE,     \* nothing received since the last END
                since |-> <<>>,        \* the bytes received since the last END
                                       \* or wrap, before the latest call
                packet |-> <<>>,       \* the packet given to the encoder
                destinationSize |-> 0, \* the destination size given to it
                encoded |-> NotSerialised,
                stream |-> <<>>,       \* bytes of the frame not yet received
                clean |-> FALSE,       \* the frame began at a boundary, with
                                       \* a handler registered
                rets |-> <<>>,         \* return values for the frame's bytes
                delivered |-> <<>> ]   \* packets delivered during the frame

SlipIdle == slip.encoded = NotSerialised

\* the bytes received since the last END or since the index last wrapped,
\* the byte of the latest call included
SinceWrap ==
    IF slip.last.err = -1 THEN <<>>
    ELSE IF slip.last.byte = SLIP_END THEN <<>>
    ELSE IF Len(slip.since) + 1 >= OSC_SLIP_DECODER_BUFFER_SIZE THEN <<>>
    ELSE Append(slip.since, slip.last.byte)

\* the application assigns oscSlipDecoder.processPacket, before it receives
SlipAssignProcessPacket ==
    /\ SlipIdle
    /\ slip.raw = 0
    /\ ~slip.decoder.processPacket
    /\ slip' = [slip EXCEPT !.decoder.processPacket = TRUE]
    /\ UNCHANGED <<transportSize, oscMessage, added, lastError, wire, parsed,
                   got, pkt>>

\* OscSlipDecoderProcessByte on a byte that no encoder of this model produced
SlipProcessRawByte ==
    /\ SlipIdle
    /\ slip.raw < MaxRawBytes
    /\ \E b \in RawBytes :
        LET r == OscSlipDecoderProcessByte(slip.decoder, b)
        IN  /\ slip' = [slip EXCEPT !.decoder = r.dec,
                                    !.raw = @ + 1,
                                    !.last = Called(slip.boundary, b, r),
                                    !.discarded = (r.err # 0),
                                    !.since = SinceWrap,
                                    !.boundary = (b = SLIP_END)]
            /\ lastError' = r.err
    /\ UNCHANGED <<transportSize, oscMessage, added, wire, parsed, got, pkt>>

\* OscSlipEncodePacket into a destination of d bytes, before anything is
\* received (the encoder does not depend on the decoder)
SlipEncodePacket ==
    /\ SlipIdle
    /\ slip.raw = 0
    /\ ~slip.decoder.processPacket
    /\ \E p \in SlipPackets, d \in 0 .. 2 * MAX_OSC_PACKET_SIZE + 1 :
        LET r == OscSlipEncodePacket(p, d)
        IN  /\ slip' = [slip EXCEPT !.packet = p,
                                    !.destinationSize = d,
                                    !.encoded = r]
            /\ lastError' = r.err
    /\ UNCHANGED <<transportSize, oscMessage, added, wire, parsed, got, pkt>>

\* OscSlipEncodePacket into a destination that holds the longest encoding; the
\* bytes it reports are then sent down the line
SlipSendPacket ==
    /\ SlipIdle
    /\ \E p \in SlipPackets :
        LET d == 2 * MAX_OSC_PACKET_SIZE + 1
            r == OscSlipEncodePacket(p, d)
        IN  /\ slip' = [slip EXCEPT !.packet = p,
                                    !.destinationSize = d,
                                    !.encoded = r,
                                    !.stream = SubSeq(r.bytes, 1, r.size),
                                    !.clean = slip.boundary
                                                /\ slip.decoder.processPacket]
            /\ lastError' = r.err
    /\ UNCHANGED <<transportSize, oscMessage, added, wire, parsed, got, pkt>>

\* OscSlipDecoderProcessByte on the next byte of the encoded frame
SlipProcessByte ==
    /\ slip.stream # <<>>
    /\ LET r == OscSlipDecoderProcessByte(slip.decoder, Head(slip.stream))
           b == Head(slip.stream)
       IN  /\ slip' = [slip EXCEPT !.decoder = r.dec,
                                   !.last = Called(slip.boundary, b, r),
                                   !.boundary = (b = SLIP_END),
                                   !.since = SinceWrap,
                                   !.stream = Tail(@),
                                   !.rets = Append(@, r.err),
                                   !.delivered = @ \o r.packets]
           /\ lastError' = r.err
    /\ UNCHANGED <<transportSize, oscMessage, added, wire, parsed, got, pkt>>

NextSlip ==
    \/ SlipAssignProcessPacket
    \/ SlipProcessRawByte
    \/ SlipEncodePacket
    \/ SlipSendPacket
    \/ SlipProcessByte

SpecSlip == InitSlip /\ [][NextSlip]_vars

\* the frame that OscSlipEncodePacket reported
SlipFrame == SubSeq(slip.encoded.bytes, 1, slip.encoded.size)

\* the handler was invoked once, on the last byte of the frame, with the
\* packet that was encoded, and every call returned 0
SlipRoundTripHolds ==
    /\ \A i \in 1 .. Len(slip.rets) : slip.rets[i] = 0
    /\ slip.delivered = IF slip.stream = <<>> THEN <<slip.packet>> ELSE <<>>

RECURSIVE Unstuffed(_)
Unstuffed(frame) ==
    IF Len(frame) <= 1 THEN <<>>
    ELSE IF frame[1] = SLIP_ESC
    THEN <<IF frame[2] = SLIP_ESC_END THEN SLIP_END ELSE SLIP_ESC>>
            \o Unstuffed(SubSeq(frame, 3, Len(frame)))
    ELSE <<frame[1]>> \o Unstuffed(Tail(frame))

\* the number of bytes a frame has for a packet byte
StuffedLength(byte) == IF byte \in {SLIP_END, SLIP_ESC} THEN 2 ELSE 1

RECURSIVE FrameLength(_)
FrameLength(packet) ==
    IF packet = <<>> THEN 1
    ELSE StuffedLength(Head(packet)) + FrameLength(Tail(packet))

\* C9: SLIP transparency.  The output of a successful OscSlipEncodePacket
\* holds 0xC0 exactly once, as its last byte; every 0xDB in it is followed
\* at once by 0xDC or 0xDD; and it has DB DC for each 0xC0 of the packet,
\* DB DD for each 0xDB and every other byte unchanged.
C9_SlipTransparency ==
    (slip.encoded # NotSerialised /\ slip.encoded.err = 0)
    => LET frame == SlipFrame
       IN  /\ Len(frame) >= 1
           /\ \A i \in 1 .. Len(frame) : (frame[i] = SLIP_END) <=> (i = Len(frame))
           /\ \A i \in 1 .. Len(frame) :
                 frame[i] = SLIP_ESC
                 => /\ i < Len(frame)
                    /\ frame[i + 1] \in {SLIP_ESC_END, SLIP_ESC_ESC}
           /\ Len(frame) = FrameLength(slip.packet)
           /\ Unstuffed(frame) = slip.packet

\* a packet holding END, ESC and an ordinary byte was encoded
C9_AllKindsEncoded ==
    /\ slip.encoded # NotSerialised /\ slip.encoded.err = 0
    /\ slip.packet = <<SLIP_END, SLIP_ESC, LetterA>>
    /\ SlipFrame = <<SLIP_ESC, SLIP_ESC_END, SLIP_ESC, SLIP_ESC_ESC, LetterA, SLIP_END>>

\* C10: SLIP encode capacity.  OscSlipEncodePacket returns non-zero with
\* *slipPacketSize 0 whenever the whole frame, END included, is longer than
\* destinationSize, and never stores at destination[k] for k >= destinationSize.
C10_SlipEncodeCapacity ==
    slip.encoded # NotSerialised
    => /\ FrameLength(slip.packet) > slip.destinationSize
          => (slip.encoded.err # 0 /\ slip.encoded.size = 0)
       /\ Len(slip.encoded.bytes) <= slip.destinationSize

\* C11: a leading END is skipped.  An END given to OscSlipDecoderProcessByte
\* while no frame bytes are buffered (nothing received since initialisation
\* or since the last END), on a decoder that has a handler, does not invoke
\* the handler and returns 0.
C11_LeadingEndSkipped ==
    (slip.last # NoCall /\ slip.last.byte = SLIP_END /\ slip.last.boundary
        /\ slip.decoder.processPacket)
    => (slip.last.err = 0 /\ slip.last.packets = <<>>)

\* the bytes of a packet
BytesOf(packet) == { packet[i] : i \in 1 .. Len(packet) }

\* C12: SLIP error recovery.  Whenever OscSlipDecoderProcessByte returns
\* non-zero, the byte was an END, the handler was not invoked by that call
\* and the write index is 0; the frame received right after a discarded one
\* delivers no byte of the discarded frame, and with a handler registered it
\* is delivered as if nothing had been received before it.
C12_SlipErrorRecovery ==
    /\ slip.last.err > 0
       => /\ slip.last.byte = SLIP_END
          /\ slip.last.packets = <<>>
          /\ slip.decoder.bufferIndex = 0
    /\ slip.discarded
       => /\ \A i \in 1 .. Len(slip.delivered) :
                LetterB \notin BytesOf(slip.delivered[i])
          /\ (slip.decoder.processPacket /\ slip.encoded # NotSerialised
                /\ slip.encoded.size <= OSC_SLIP_DECODER_BUFFER_SIZE)
             => SlipRoundTripHolds

\* a frame was discarded for an ESC that no ESC_END or ESC_ESC followed, and the
\* frame received after it was delivered
C12_DeliveredAfterDiscard ==
    /\ slip.discarded /\ slip.decoder.processPacket
    /\ slip.raw >= 2
    /\ slip.stream = <<>>
    /\ slip.packet = <<SLIP_ESC, LetterA>>
    /\ slip.delivered = <<slip.packet>>

--------------------------------------------------------------------------
(* Bundles and packets driven by an application: a sender builds a        *)
(* message and two bundles, adds contents to the bundles and makes a      *)
(* packet of one of them; a receiver is handed the packet's bytes, as     *)
(* sent or damaged, and processes them.                                   *)

TimeTagA == <<1, 0, 0, 0, 0, 0, 0, 0>>
TimeTagB == <<2, 0, 0, 0, 0, 0, 0, 0>>
TimeTagUnset == <<9, 9, 9, 9, 9, 9, 9, 9>>
TimeTags == { TimeTagA, TimeTagB }

Slots == { "inner", "outer" }

PktAddressPatterns == { <<Slash, LetterA>>, <<Slash, LetterA, LetterB>>, <<LetterA>> }

\* byte values that damage puts in a packet
DamagedBytes == { 0, 12, 120, 255 }

\* What an automatic OscBundle can hold before it is initialised: a bundle
\* whose elements were all iterated, or one with a message still to iterate.
UnsetBundles ==
    { [ header |-> OSC_BUNDLE_HEADER, oscTimeTag |-> TimeTagUnset,
        oscBundleElements |-> <<>>, oscBundleElementsIndex |-> 0 ],
      [ header |-> OSC_BUNDLE_HEADER, oscTimeTag |-> TimeTagUnset,
        oscBundleElements |->
            <<0, 0, 0, 8, Slash, LetterB, 0, 0, Comma, 0, 0, 0>>,
        oscBundleElementsIndex |-> 0 ] }

Unset == [oscBundle : UnsetBundles, residue : {0}, past : {0, 255}]

\* the source with one byte damaged, or cut short
Damaged(source) ==
    { [source EXCEPT ![i] = b] : i \in 1 .. Len(source), b \in DamagedBytes }
    \cup { SubSeq(source, 1, n) : n \in 0 .. Len(source) }

NotProcessed == [err |-> -1, did |-> <<>>]

InitPkt ==
    /\ transportSize = 4 * PktTransportWords
    /\ oscMessage = BlankMessage(0)
    /\ added = <<>>
    /\ lastError = 0
    /\ wire = NotSerialised
    /\ parsed = NotParsed
    /\ got = <<>>
    /\ slip = NoSlip
    /\ pkt = [ phase |-> "build",
               oscBundle |-> [s \in Slots |-> OscBundleInitialise(0, TimeTagA)],
               \* the messages of each bundle, in the order they were serialised
               walk |-> [s \in Slots |-> <<>>],
               \* the bytes of each of the contents added to each bundle, as
               \* the contents serialise on their own
               children |-> [s \in Slots |-> <<>>],
               oscPacket |-> OscPacketInitialise,
               \* the serialisation that OscPacketInitialiseFromContents made
               serialised |-> NotSerialised,
               \* the messages of the contents the packet was made of
               tree |-> <<>>,
               processed |-> NotProcessed ]

PktBuilding == pkt.phase = "build"

\* what the sender keeps once the packet is made
Sent(oscPacket, serialised, tree) ==
    [ phase |-> "packet",
      oscBundle |-> [s \in Slots |-> OscBundleInitialise(0, TimeTagA)],
      walk |-> [s \in Slots |-> <<>>],
      children |-> [s \in Slots |-> <<>>],
      oscPacket |-> oscPacket,
      serialised |-> serialised,
      tree |-> tree,
      processed |-> NotProcessed ]

Visit(oscTimeTag, oscAddressPattern) ==
    [oscTimeTag |-> oscTimeTag, oscAddressPattern |-> oscAddressPattern]

PktMessageInitialise ==
    /\ PktBuilding
    /\ \E a \in PktAddressPatterns :
        LET r == OscMessageInitialise(0, a)
        IN  /\ oscMessage' = r.msg
            /\ lastError' = r.err
    /\ UNCHANGED <<transportSize, added, wire, parsed, got, slip, pkt>>

PktBundleInitialise ==
    /\ PktBuilding
    /\ \E s \in Slots, t \in TimeTags :
        pkt' = [pkt EXCEPT !.oscBundle[s] = OscBundleInitialise(0, t),
                           !.walk[s] = <<>>,
                           !.children[s] = <<>>]
    /\ UNCHANGED <<transportSize, oscMessage, added, lastError, wire, parsed,
                   got, slip>>

PktBundleEmpty ==
    /\ PktBuilding
    /\ \E s \in Slots :
        pkt' = [pkt EXCEPT !.oscBundle[s] = OscBundleEmpty(@),
                           !.walk[s] = <<>>,
                           !.children[s] = <<>>]
    /\ UNCHANGED <<transportSize, oscMessage, added, lastError, wire, parsed,
                   got, slip>>

\* the bytes of the contents serialised on their own
AloneBytes(oscContents) == SerialiseContents(oscContents, MAX_OSC_PACKET_SIZE).bytes

\* OscBundleAddContents(&bundle, &oscMessage)
PktBundleAddMessage ==
    /\ PktBuilding
    /\ \E s \in Slots :
        LET r == OscBundleAddContents(pkt.oscBundle[s], MessageContents(oscMessage))
        IN  /\ pkt' = [pkt EXCEPT
                          !.oscBundle[s] = r.bundle,
                          !.children[s] =
                              IF r.err # 0 THEN @
                              ELSE Append(@, AloneBytes(MessageContents(oscMessage))),
                          !.walk[s] =
                              IF r.err # 0 THEN @
                              ELSE Append(@, Visit(pkt.oscBundle[s].oscTimeTag,
                                                   oscMessage.oscAddressPattern))]
            /\ lastError' = r.err
    /\ UNCHANGED <<transportSize, oscMessage, added, wire, parsed, got, slip>>

\* OscBundleAddContents(&outer, &inner)
PktBundleAddBundle ==
    /\ PktBuilding
    /\ LET r == OscBundleAddContents(pkt.oscBundle["outer"],
                                     BundleContents(pkt.oscBundle["inner"]))
       IN  /\ pkt' = [pkt EXCEPT
                         !.oscBundle["outer"] = r.bundle,
                         !.children["outer"] =
                             IF r.err # 0 THEN @
                             ELSE Append(@, AloneBytes(
                                      BundleContents(pkt.oscBundle["inner"]))),
                         !.walk["outer"] =
                             IF r.err # 0 THEN @ ELSE @ \o pkt.walk["inner"]]
           /\ lastError' = r.err
    /\ UNCHANGED <<transportSize, oscMessage, added, wire, parsed, got, slip>>

\* OscPacketInitialiseFromContents(&oscPacket, &oscMessage)
PktInitialiseFromMessage ==
    /\ PktBuilding
    /\ LET c == MessageContents(oscMessage)
           r == OscPacketInitialiseFromContents(pkt.oscPacket, c)
       IN  /\ pkt' = Sent(r.packet, SerialiseContents(c, MAX_OSC_PACKET_SIZE),
                          <<Visit(NULL, oscMessage.oscAddressPattern)>>)
           /\ lastError' = r.err
    /\ oscMessage' = BlankMessage(0)
    /\ UNCHANGED <<transportSize, added, wire, parsed, got, slip>>

\* OscPacketInitialiseFromContents(&oscPacket, &bundle)
PktInitialiseFromBundle ==
    /\ PktBuilding
    /\ \E s \in Slots :
        LET c == BundleContents(pkt.oscBundle[s])
            r == OscPacketInitialiseFromContents(pkt.oscPacket, c)
        IN  /\ pkt' = Sent(r.packet, SerialiseContents(c, MAX_OSC_PACKET_SIZE),
                           pkt.walk[s])
            /\ lastError' = r.err
    /\ oscMessage' = BlankMessage(0)
    /\ UNCHANGED <<transportSize, added, wire, parsed, got, slip>>

\* OscPacketInitialiseFromCharArray on the bytes of the packet as received
PktInitialiseFromCharArray ==
    /\ pkt.phase = "packet"
    /\ \E source \in Damaged(SubSeq(pkt.oscPacket.contents, 1, pkt.oscPacket.size)) :
        LET r == OscPacketInitialiseFromCharArray(source)
        IN  /\ pkt' = [pkt EXCEPT !.phase = "received",
                                  !.oscPacket = r.packet,
                                  !.serialised = NotSerialised,
                                  !.tree = <<>>,
                                  !.processed = NotProcessed]
            /\ lastError' = r.err
    /\ UNCHANGED <<transportSize, oscMessage, added, wire, parsed, got, slip>>

\* the application assigns oscPacket.processMessage
PktAssignProcessMessage ==
    /\ pkt.phase \in {"packet", "received"}
    /\ ~pkt.oscPacket.processMessage
    /\ pkt.processed = NotProcessed
    /\ pkt' = [pkt EXCEPT !.oscPacket.processMessage = TRUE]
    /\ UNCHANGED <<transportSize, oscMessage, added, lastError, wire, parsed,
                   got, slip>>

PktProcessMessages ==
    /\ pkt.phase \in {"packet", "received"}
    /\ pkt.processed = NotProcessed
    /\ \E unset \in Unset :
        LET r == OscPacketProcessMessages(pkt.oscPacket, unset)
        IN  /\ pkt' = [pkt EXCEPT !.processed = r]
            /\ lastError' = r.err
    /\ UNCHANGED <<transportSize, oscMessage, added, wire, parsed, got, slip>>

NextPkt ==
    \/ PktMessageInitialise
    \/ PktBundleInitialise
    \/ PktBundleEmpty
    \/ PktBundleAddMessage
    \/ PktBundleAddBundle
    \/ PktInitialiseFromMessage
    \/ PktInitialiseFromBundle
    \/ PktInitialiseFromCharArray
    \/ PktAssignProcessMessage
    \/ PktProcessMessages

SpecPkt == InitPkt /\ [][NextPkt]_vars

--------------------------------------------------------------------------
(* The packet visitor.                                                    *)

\* the bytes of the packet
PacketContents == SubSeq(pkt.oscPacket.contents, 1, pkt.oscPacket.size)

\* OscPacketProcessMessages ran with a handler registered
Processed == pkt.processed # NotProcessed /\ pkt.oscPacket.processMessage

\* the handler invocations, in order
HandlerCalls == SelectSeq(pkt.processed.did, LAMBDA d : d.op = "processMessage")

VisitOf(d) == Visit(d.oscTimeTag, d.oscMessage.oscAddressPattern)

\* A reading of packet bytes that follows the wire format and not the code:
\* the time tags of the enclosing bundles of the messages met, depth first,
\* up to the first contents or element that is not well formed.  An element
\* is read wherever at least 4 bytes remain.  fail is "none", "bundle" (a
\* bundle of a wrong size) or "element".
RECURSIVE WalkContents(_, _)
RECURSIVE WalkElements(_, _, _)
WalkContents(oscTimeTag, contents) ==
    IF Len(contents) = 0 THEN [fail |-> "element", tts |-> <<>>]
    ELSE IF contents[1] = OscContentsTypeMessage
    THEN [fail |-> "none", tts |-> <<oscTimeTag>>]
    ELSE IF contents[1] = OscContentsTypeBundle
    THEN IF \/ Len(contents) % 4 # 0
            \/ Len(contents) < MIN_OSC_BUNDLE_SIZE
            \/ Len(contents) > MAX_OSC_BUNDLE_SIZE
         THEN [fail |-> "bundle", tts |-> <<>>]
         ELSE WalkElements(FromBigEndian(SubSeq(contents, 9, 16)),
                           SubSeq(contents, 17, Len(contents)), 0)
    ELSE [fail |-> "element", tts |-> <<>>]
WalkElements(oscTimeTag, region, i) ==
    IF Len(region) - i < 4 THEN [fail |-> "none", tts |-> <<>>]
    ELSE LET size == Int32FromBytes(region[i + 1], region[i + 2],
                                    region[i + 3], region[i + 4])
         IN  IF size < 0 \/ size % 4 # 0 \/ i + 4 + size > Len(region)
             THEN [fail |-> "element", tts |-> <<>>]
             ELSE LET c == WalkContents(oscTimeTag,
                                        SubSeq(region, i + 5, i + 4 + size))
                      rest == WalkElements(oscTimeTag, region, i + 4 + size)
                  IN  IF c.fail # "none" THEN c
                      ELSE [fail |-> rest.fail, tts |-> c.tts \o rest.tts]

\* C2: nested round trip and ordering.  For a packet made by
\* OscPacketInitialiseFromContents of a message or of a tree of bundles built
\* with OscBundleAddContents, OscPacketProcessMessages returns 0 and invokes
\* the handler once for each message of the tree, in the order the messages
\* were added (depth first), each with the address pattern of the message and
\* the time tag of the bundle it was added to.
C2_NestedRoundTrip ==
    (Processed /\ pkt.phase = "packet" /\ pkt.serialised.err = 0)
    => /\ pkt.processed.err = 0
       /\ Len(HandlerCalls) = Len(pkt.tree)
       /\ \A i \in 1 .. Len(HandlerCalls) : VisitOf(HandlerCalls[i]) = pkt.tree[i]

\* a bundle holding a message and then a bundle with a message was processed
C2_NestedTreeProcessed ==
    /\ Processed /\ pkt.phase = "packet" /\ pkt.serialised.err = 0
    /\ pkt.processed.err = 0
    /\ pkt.tree = << Visit(TimeTagA, <<Slash, LetterA>>),
                     Visit(TimeTagB, <<Slash, LetterA, LetterB>>) >>
    /\ Len(HandlerCalls) = 2

\* C3: time tag passed to the handler.  In every handler invocation made by
\* OscPacketProcessMessages the time tag is that of the innermost bundle of
\* the packet that encloses the message, and it is NULL exactly when the
\* packet is a bare message.
C3_HandlerTimeTag ==
    Processed
    => LET w == WalkContents(NULL, PacketContents)
       IN  \A i \in 1 .. Len(HandlerCalls) :
              /\ i <= Len(w.tts)
              /\ HandlerCalls[i].oscTimeTag = w.tts[i]
              /\ (HandlerCalls[i].oscTimeTag = NULL)
                     <=> (PacketContents[1] = OscContentsTypeMessage)

\* C4: the visitor surfaces message parse errors.  Whenever contents that
\* start with '/' are rejected by OscMessageInitialiseFromCharArray,
\* OscPacketProcessMessages returns non-zero and the handler is not invoked
\* for those contents.
C4_MessageParseErrorSurfaced ==
    Processed
    => \A i \in 1 .. Len(pkt.processed.did) :
          (pkt.processed.did[i].op = "message" /\ pkt.processed.did[i].err # 0)
          => /\ pkt.processed.err # 0
             /\ ~(/\ i < Len(pkt.processed.did)
                  /\ pkt.processed.did[i + 1].op = "processMessage")

\* C5: the visitor surfaces bundle parse errors.  Whenever contents that
\* start with '#' are rejected by OscBundleInitialiseFromCharArray,
\* OscPacketProcessMessages returns non-zero, iterates no element of those
\* contents and makes no handler call for anything inside them.
C5_BundleParseErrorSurfaced ==
    Processed
    => \A i \in 1 .. Len(pkt.processed.did) :
          (pkt.processed.did[i].op = "bundle" /\ pkt.processed.did[i].err # 0)
          => /\ pkt.processed.err # 0
             /\ i = Len(pkt.processed.did)

\* C6: the visitor stops at the first element failure.  When, reading the
\* packet depth first, a bundle element is met whose size prefix is negative,
\* not a multiple of 4 or extends past the element region, or whose contents
\* have size zero or start with neither '/' nor '#', OscPacketProcessMessages
\* returns non-zero and the handler calls made are exactly those for the
\* messages that precede that element.
C6_StopsAtFirstElementFailure ==
    LET w == WalkContents(NULL, PacketContents)
    IN  (Processed /\ w.fail = "element")
        => /\ pkt.processed.err # 0
           /\ Len(HandlerCalls) = Len(w.tts)

\* C7: OscPacketInitialiseFromContents returns 0 whenever the serialisation
\* of the message or bundle into the packet succeeds, leaving the packet size
\* equal to the serialised size, and returns non-zero only when the contents
\* are neither a message nor a bundle or their serialisation fails.
C7_InitialiseFromContentsReturn ==
    (pkt.phase = "packet" /\ pkt.processed = NotProcessed
        /\ ~pkt.oscPacket.processMessage)
    => /\ pkt.serialised.err = 0
          => (lastError = 0 /\ pkt.oscPacket.size = pkt.serialised.size)
       /\ lastError # 0 => pkt.serialised.err # 0

--------------------------------------------------------------------------
(* Claims about building bundles.                                         *)

\* contents that OscBundleAddContents can serialise: a message that has an
\* address pattern, or a bundle
ValidContents(oscContents) ==
    IF oscContents.isMessage
    THEN /\ oscAddressPatternLength(oscContents.oscMessage) > 0
         /\ Head(oscContents.oscMessage.oscAddressPattern) = Slash
    ELSE TRUE

\* the size of the contents when serialised
ContentsSize(oscContents) ==
    IF oscContents.isMessage THEN OscMessageGetSize(oscContents.oscMessage)
    ELSE OscBundleGetSize(oscContents.oscBundle)

\* what OscBundleAddContents must do with bundle b and the contents: succeed
\* exactly when the contents are valid and their size is at most the room
\* left after the 4-byte size, then grow the element region by 4 + that size
\* behind the elements it held; otherwise leave the bundle as it was
AppendCapacity(b, oscContents) ==
    LET r == OscBundleAddContents(b, oscContents)
        size == ContentsSize(oscContents)
        fits == size <= MAX_OSC_BUNDLE_ELEMENTS_SIZE - oscBundleElementsSize(b) - 4
    IN  IF ValidContents(oscContents) /\ fits
        THEN /\ r.err = 0
             /\ oscBundleElementsSize(r.bundle) = oscBundleElementsSize(b) + 4 + size
             /\ SubSeq(r.bundle.oscBundleElements, 1, oscBundleElementsSize(b))
                    = b.oscBundleElements
        ELSE /\ r.err # 0
             /\ r.bundle = b

\* C15: bundle append capacity.  On every bundle the sender reaches,
\* OscBundleAddContents with valid contents succeeds exactly when their
\* serialised size is at most MAX_OSC_BUNDLE_ELEMENTS_SIZE -
\* oscBundleElementsSize - 4; on success oscBundleElementsSize grows by
\* exactly 4 + that size, and on any failure (capacity, a message without
\* address, contents that are neither message nor bundle) the size and the
\* elements stored before are unchanged; oscBundleElementsSize never exceeds
\* MAX_OSC_BUNDLE_ELEMENTS_SIZE.
C15_BundleAppendCapacity ==
    PktBuilding
    => /\ \A s \in Slots :
             /\ oscBundleElementsSize(pkt.oscBundle[s])
                    <= MAX_OSC_BUNDLE_ELEMENTS_SIZE
             /\ AppendCapacity(pkt.oscBundle[s], MessageContents(oscMessage))
       /\ AppendCapacity(pkt.oscBundle["outer"],
                         BundleContents(pkt.oscBundle["inner"]))

\* a bundle was filled to the last byte by a message, a bundle and a message,
\* and the next contents were refused
C15_FilledAndRefused ==
    /\ PktBuilding
    /\ lastError # 0
    /\ Len(pkt.children["outer"]) = 3
    /\ oscBundleElementsSize(pkt.oscBundle["outer"]) = MAX_OSC_BUNDLE_ELEMENTS_SIZE
    /\ ValidContents(MessageContents(oscMessage))

\* the 4 bytes of a size below 65536, most significant first
SizePrefix(n) == <<0, 0, n \div 256, n % 256>>

\* the element region that holds the given contents, each behind its size
RECURSIVE ElementRegion(_)
ElementRegion(children) ==
    IF children = <<>> THEN <<>>
    ELSE SizePrefix(Len(Head(children))) \o Head(children)
            \o ElementRegion(Tail(children))

RECURSIVE SumOfElements(_)
SumOfElements(children) ==
    IF children = <<>> THEN 0
    ELSE 4 + Len(Head(children)) + SumOfElements(Tail(children))

\* C16: bundle element layout.  After any sequence of OscBundleInitialise,
\* OscBundleAddContents and OscBundleEmpty calls, the element region is the
\* concatenation, in call order since the last initialise or empty, of the
\* 4-byte big-endian size and the serialised bytes of the contents of each
\* successful add; every size is a non-negative multiple of 4; and
\* OscBundleGetSize is 16 + the sum over the elements of 4 + the size.
C16_BundleElementLayout ==
    PktBuilding
    => \A s \in Slots :
          LET b == pkt.oscBundle[s]
              children == pkt.children[s]
          IN  /\ b.oscBundleElements = ElementRegion(children)
              /\ \A i \in 1 .. Len(children) : Len(children[i]) % 4 = 0
              /\ OscBundleGetSize(b) = 16 + SumOfElements(children)

\* a bundle that was emptied and then given a message and a bundle that
\* holds a message
C16_MessageAndBundleAdded ==
    /\ PktBuilding
    /\ Len(pkt.children["outer"]) = 2
    /\ Len(pkt.children["outer"][1]) = 8
    /\ Len(pkt.children["outer"][2]) = 28
    /\ pkt.oscBundle["outer"].oscTimeTag = TimeTagB
    /\ oscBundleElementsSize(pkt.oscBundle["outer"]) = 44

--------------------------------------------------------------------------
(* The sizes of messages, bundles and packets.                            *)

\* The message builder, with arguments of every kind, and the sender of
\* bundles and packets, side by side.
InitSizes == InitMsg \/ InitPkt

NextSizes ==
    \/ pkt = NoPkt /\ NextBuild
    \/ pkt # NoPkt /\ NextPkt

SpecSizes == InitSizes /\ [][NextSizes]_vars

WordAligned(n) == n % 4 = 0

\* the sizes of the contents, as the structure reports them and as each
\* serialisation that succeeds leaves them
ContentsWordAligned(oscContents) ==
    LET s == SerialiseContents(oscContents, MAX_TRANSPORT_SIZE)
        p == OscPacketInitialiseFromContents(OscPacketInitialise, oscContents)
    IN  /\ WordAligned(ContentsSize(oscContents))
        /\ s.err = 0 => (WordAligned(s.size) /\ Len(s.bytes) = s.size)
        /\ s.err = 0 => (WordAligned(p.packet.size)
                           /\ Len(p.packet.contents) = p.packet.size)

\* bundles made of the message alone: the message, the message twice, the
\* bundle of the message beside the message, and the same emptied
BundlesOf(m) ==
    LET one == OscBundleAddContents(OscBundleInitialise(0, TimeTagA),
                                    MessageContents(m)).bundle
        two == OscBundleAddContents(one, MessageContents(m)).bundle
        nest == OscBundleAddContents(
                    OscBundleAddContents(OscBundleInitialise(0, TimeTagB),
                                         BundleContents(one)).bundle,
                    MessageContents(m)).bundle
    IN  { one, two, nest, OscBundleEmpty(nest) }

\* C17: serialised sizes are multiples of 4.  In every state reached through
\* OscMessageInitialise, OscMessageSetAddressPattern,
\* OscMessageAppendAddressPattern and the OscMessageAdd functions, and
\* through OscBundleInitialise, OscBundleAddContents and OscBundleEmpty,
\* OscMessageGetSize and OscBundleGetSize are multiples of 4, and every
\* OscMessageToCharArray, OscBundleToCharArray and
\* OscPacketInitialiseFromContents whose serialisation succeeds produces a
\* number of bytes that is a multiple of 4.
C17_SerialisedSizesWordAligned ==
    /\ ContentsWordAligned(MessageContents(oscMessage))
    /\ wire.err = 0 => (WordAligned(wire.size) /\ Len(wire.bytes) = wire.size)
    /\ \A b \in BundlesOf(oscMessage) : ContentsWordAligned(BundleContents(b))
    /\ pkt.phase = "build"
       => \A s \in Slots : ContentsWordAligned(BundleContents(pkt.oscBundle[s]))
    /\ (pkt.phase = "packet" /\ pkt.serialised.err = 0)
       => (WordAligned(pkt.oscPacket.size)
             /\ Len(pkt.oscPacket.contents) = pkt.oscPacket.size)

\* a message whose address pattern and string argument both need padding
\* was serialised
C17_PaddedMessageSerialised ==
    /\ wire.err = 0
    /\ ~WordAligned(oscAddressPatternLength(oscMessage) + 1)
    /\ Len(added) = 1
    /\ added[1].tag = OscTypeTagString
    /\ ~WordAligned(Len(added[1].val) + 1)
    /\ wire.size = OscMessageGetSize(oscMessage)

--------------------------------------------------------------------------
(* Claims about received bundles: the bytes of the packet, as sent or as  *)
(* received, handed to OscBundleInitialiseFromCharArray.                  *)

HoldsPacket == pkt.phase \in {"packet", "received"}

\* the results of OscBundleInitialiseFromCharArray on the packet's bytes that
\* succeed, for each bundle structure and each byte behind the source
ParsedBundles ==
    { r.bundle : r \in { p \in { OscBundleInitialiseFromCharArray(
                                     unset.oscBundle, PacketContents, unset.past) :
                                 unset \in Unset } : p.err = 0 } }

\* C19: bundle parse keeps exactly the remaining bytes.  After
\* OscBundleInitialiseFromCharArray succeeds on sourceSize bytes,
\* oscBundleElementsSize is sourceSize - 16, the element region is
\* source[16 .. sourceSize - 1], the time tag is the big-endian value of
\* source[8 .. 15] and the iteration cursor is 0; parsing the 16 bytes of an
\* empty bundle gives a bundle for which OscBundleIsEmpty is true and
\* OscBundleGetSize is 16.
C19_BundleParseKeepsRemainingBytes ==
    HoldsPacket
    => \A b \in ParsedBundles :
          LET source == PacketContents
              sourceSize == Len(source)
          IN  /\ oscBundleElementsSize(b) = sourceSize - 16
              /\ b.oscBundleElements = SubSeq(source, 17, sourceSize)
              /\ b.oscTimeTag = FromBigEndian(SubSeq(source, 9, 16))
              /\ b.oscBundleElementsIndex = 0
              /\ sourceSize = 16 => (OscBundleIsEmpty(b) /\ OscBundleGetSize(b) = 16)

\* the same for sources that hold at least one byte of elements
C19_ParseKeepsBytesOfElements ==
    (HoldsPacket /\ pkt.oscPacket.size > 16)
    => \A b \in ParsedBundles :
          LET source == PacketContents
              sourceSize == Len(source)
          IN  /\ oscBundleElementsSize(b) = sourceSize - 16
              /\ b.oscBundleElements = SubSeq(source, 17, sourceSize)
              /\ b.oscTimeTag = FromBigEndian(SubSeq(source, 9, 16))
              /\ b.oscBundleElementsIndex = 0

\* the bytes that remain past the iteration cursor
RemainingElements(b) == oscBundleElementsSize(b) - b.oscBundleElementsIndex

\* the size stored at the iteration cursor
SizeAtCursor(b) ==
    LET i == b.oscBundleElementsIndex
    IN  Int32FromBytes(At(b.oscBundleElements, i), At(b.oscBundleElements, i + 1),
                       At(b.oscBundleElements, i + 2), At(b.oscBundleElements, i + 3))

\* with no fewer than least bytes past the cursor an element is available and
\* OscBundleGetBundleElement reads its size: it rejects a size that is
\* negative, not a multiple of 4 or larger than what remains, and otherwise
\* returns the bytes behind the size and moves the cursor past them; the
\* same at every cursor that the successful reads lead to
RECURSIVE ElementsFrom(_, _)
ElementsFrom(b, least) ==
    RemainingElements(b) >= least
    => LET r == OscBundleGetBundleElement(b)
           i == b.oscBundleElementsIndex
           size == SizeAtCursor(b)
       IN  /\ OscBundleIsBundleElementAvailable(b)
           /\ IF size < 0 \/ size % 4 # 0 \/ size > RemainingElements(b) - 4
              THEN r.err # 0
              ELSE /\ r.err = 0
                   /\ r.size = size
                   /\ r.contents = SubSeq(b.oscBundleElements, i + 5, i + 4 + size)
                   /\ r.bundle.oscBundleElementsIndex = i + 4 + size
                   /\ ElementsFrom(r.bundle, least)

\* C20: element iteration threshold.  A bundle element is available, and
\* OscBundleGetBundleElement reads its size, whenever at least 4 bytes remain
\* past the iteration cursor, also when exactly 4 remain; the element is
\* rejected if the size is negative, not a multiple of 4 or extends past the
\* element region, and otherwise the returned view starts right after the
\* size and the cursor advances by 4 + size.
C20_ElementIterationThreshold ==
    HoldsPacket => \A b \in ParsedBundles : ElementsFrom(b, 4)

\* the same whenever more than 4 bytes remain past the cursor
C20_ElementsWithMoreThanSize ==
    HoldsPacket => \A b \in ParsedBundles : ElementsFrom(b, 5)

\* the bundles that successive OscBundleGetBundleElement calls lead to,
\* starting with b and ending with the first call that fails
RECURSIVE CursorsFrom(_)
CursorsFrom(b) ==
    LET r == OscBundleGetBundleElement(b)
    IN  IF r.err # 0 THEN {b} ELSE {b} \cup CursorsFrom(r.bundle)

\* the bundles a receiver holds while it iterates the packet's bytes
IteratedBundles == UNION { CursorsFrom(b) : b \in ParsedBundles }

\* C21: a failed element read leaves the cursor alone.  Whenever
\* OscBundleGetBundleElement returns non-zero (too few bytes, negative size,
\* size not a multiple of 4, or size beyond the element region),
\* oscBundleElementsIndex is what it was before the call.
C21_FailedReadKeepsCursor ==
    HoldsPacket
    => \A b \in IteratedBundles :
          LET r == OscBundleGetBundleElement(b)
          IN  r.err # 0
              => r.bundle.oscBundleElementsIndex = b.oscBundleElementsIndex

\* the same for the reads that fail for too few bytes
C21_TooFewBytesKeepsCursor ==
    HoldsPacket
    => \A b \in IteratedBundles :
          LET r == OscBundleGetBundleElement(b)
          IN  (r.err # 0 /\ RemainingElements(b) <= 4)
              => r.bundle.oscBundleElementsIndex = b.oscBundleElementsIndex

\* what OscBundleGetRemainingCapacity says of bundle b: a value from 0 to
\* MAX_OSC_BUNDLE_ELEMENTS_SIZE - 4 such that OscBundleAddContents accepts
\* the valid contents that are no larger and refuses those that are larger
CapacityTold(b, oscContents) ==
    LET capacity == OscBundleGetRemainingCapacity(b)
    IN  /\ capacity >= 0
        /\ capacity <= MAX_OSC_BUNDLE_ELEMENTS_SIZE - SizeofOscArgument32
        /\ ValidContents(oscContents)
           => (OscBundleAddContents(b, oscContents).err = 0
                 <=> ContentsSize(oscContents) <= capacity)

\* C22: the remaining capacity is never wrapped.  In every bundle state
\* reached through OscBundleInitialise, OscBundleAddContents and
\* OscBundleEmpty, a bundle filled to exactly MAX_OSC_BUNDLE_ELEMENTS_SIZE
\* included, OscBundleGetRemainingCapacity returns a value between 0 and
\* MAX_OSC_BUNDLE_ELEMENTS_SIZE - 4; contents whose serialised size is at
\* most that value are accepted by OscBundleAddContents and larger ones are
\* refused.
C22_RemainingCapacityNotWrapped ==
    PktBuilding
    => /\ \A s \in Slots :
             CapacityTold(pkt.oscBundle[s], MessageContents(oscMessage))
       /\ CapacityTold(pkt.oscBundle["outer"],
                       BundleContents(pkt.oscBundle["inner"]))

\* the same for the bundles that have room for the size of an element
C22_CapacityWithRoomForSize ==
    PktBuilding
    => /\ \A s \in Slots :
             oscBundleElementsSize(pkt.oscBundle[s]) + SizeofOscArgument32
                 <= MAX_OSC_BUNDLE_ELEMENTS_SIZE
             => CapacityTold(pkt.oscBundle[s], MessageContents(oscMessage))
       /\ oscBundleElementsSize(pkt.oscBundle["outer"]) + SizeofOscArgument32
              <= MAX_OSC_BUNDLE_ELEMENTS_SIZE
          => CapacityTold(pkt.oscBundle["outer"],
                          BundleContents(pkt.oscBundle["inner"]))

\* "#bundle" and its null
BundleHeaderOnWire == <<35, 98, 117, 110, 100, 108, 101, 0>>

\* the destination sizes at which the outcome of serialising bundle b changes,
\* and the two ends
BundleDestinationSizes(b) ==
    { d \in { 0, 15 + oscBundleElementsSize(b), 16 + oscBundleElementsSize(b),
              MAX_OSC_PACKET_SIZE } : d >= 0 }

\* what OscBundleToCharArray must do with bundle b and a destination of
\* destinationSize bytes
BundleOnWire(b, destinationSize) ==
    LET r == OscBundleToCharArray(b, destinationSize)
    IN  IF 16 + oscBundleElementsSize(b) > destinationSize
        THEN r.err # 0 /\ r.size = 0 /\ r.bytes = <<>>
        ELSE /\ r.err = 0
             /\ r.size = 16 + oscBundleElementsSize(b)
             /\ r.bytes = BundleHeaderOnWire \o Reversed(b.oscTimeTag)
                              \o b.oscBundleElements

\* C25: bundle wire format.  A successful OscBundleToCharArray writes the 8
\* bytes 23 62 75 6e 64 6c 65 00, then the 8 bytes of the time tag most
\* significant byte first, then the element region, and reports 16 +
\* oscBundleElementsSize bytes; when that total exceeds destinationSize it
\* writes nothing, reports size 0 and returns non-zero.
C25_BundleWireFormat ==
    PktBuilding
    => \A s \in Slots :
          \A destinationSize \in BundleDestinationSizes(pkt.oscBundle[s]) :
              BundleOnWire(pkt.oscBundle[s], destinationSize)

\* a bundle with time tag 2 that holds the message "/a" was serialised into
\* the packet
C25_BundleOfMessageSerialised ==
    /\ pkt.phase = "packet"
    /\ pkt.serialised.err = 0
    /\ pkt.oscPacket.size = 28
    /\ pkt.oscPacket.contents
         = << 35, 98, 117, 110, 100, 108, 101, 0,
              0, 0, 0, 0, 0, 0, 0, 2,
              0, 0, 0, 8, Slash, LetterA, 0, 0, Comma, 0, 0, 0 >>

--------------------------------------------------------------------------
(* Received messages of any bytes: OscMessageInitialiseFromCharArray is   *)
(* called on sources with and without '/', nulls and a comma, of every    *)
(* size up to one word more than a message can have.                      *)

\* what stands where the OSC address pattern is expected
SourceAddresses ==
    { <<>>, <<LetterA>>, <<Slash>>, <<Slash, LetterA>>, <<Slash, Comma>>,
      <<Slash, LetterA, Comma>>, <<Slash, LetterA, LetterA, LetterA>> }

\* what stands where the OSC type tag string is expected
SourceTypeTags ==
    { <<>>, <<Comma>>, <<Comma, OscTypeTagInt32>>,
      <<Comma, OscTypeTagInt32, OscTypeTagString>>,
      <<Comma, OscTypeTagInt32, OscTypeTagInt32, OscTypeTagInt32>>,
      <<LetterA, Comma, OscTypeTagInt32>> }

\* n bytes of payload, none of them null
SourcePayload(n) == [i \in 1 .. n |-> i]

\* the sources: padded strings and a payload, whole or cut short
UncutSources ==
    { OscStringOnWire(a) \o OscStringOnWire(t) \o SourcePayload(4 * w) :
        a \in SourceAddresses, t \in SourceTypeTags,
        w \in 0 .. MsgTransportWords - 1 }

Sources ==
    { SubSeq(s, 1, Len(s) - cut) :
        s \in UncutSources, cut \in 0 .. SizeofOscArgument32 }

InitParse ==
    /\ transportSize = 4 * MsgTransportWords
    /\ oscMessage = BlankMessage(0)
    /\ added = <<>>
    /\ lastError = 0
    /\ got = <<>>
    /\ slip = NoSlip
    /\ pkt = NoPkt
    /\ parsed = NotParsed
    /\ \E source \in Sources :
        wire = [err |-> 0, size |-> Len(source), bytes |-> source]

ParseSource ==
    /\ parsed = NotParsed
    /\ \E residue \in Residues :
        parsed' = OscMessageInitialiseFromCharArray(residue, wire.bytes)
    /\ lastError' = parsed'.err
    /\ UNCHANGED <<transportSize, oscMessage, added, wire, got, slip, pkt>>

NextParse == ParseSource

SpecParse == InitParse /\ [][NextParse]_vars

\* the call was made
Parsed == parsed # NotParsed

\* the index of the first byte b of source at from or later, the size of
\* the source when there is none
FirstAt(source, from, b) ==
    LET found == { i \in from .. Len(source) - 1 : At(source, i) = b }
    IN  IF found = {} THEN Len(source)
        ELSE CHOOSE i \in found : \A j \in found : i <= j

\* the null of the address, the comma that follows the address and the null
\* of the type tag string
AddressEnd(source) == FirstAt(source, 0, 0)
CommaAhead(source) == FirstAt(source, AddressEnd(source), Comma)
TypeTagsEnd(source) == FirstAt(source, CommaAhead(source), 0)

\* a source the parse accepts
Acceptable(source) ==
    /\ Len(source) % 4 = 0
    /\ Len(source) >= MIN_OSC_MESSAGE_SIZE
    /\ Len(source) <= MAX_OSC_MESSAGE_SIZE
    /\ At(source, 0) = OscContentsTypeMessage
    /\ AddressEnd(source) < Len(source)
    /\ AddressEnd(source) <= MAX_OSC_ADDRESS_PATTERN_LENGTH
    /\ CommaAhead(source) < Len(source)
    /\ TypeTagsEnd(source) < Len(source)
    /\ TypeTagsEnd(source) - CommaAhead(source) <= MAX_OSC_TYPE_TAG_STRING_LENGTH

\* the result is 0 on the acceptable sources only, with the type tag string
\* read from the comma and the arguments behind the padded type tag string
ParseAcceptance(source) ==
    /\ parsed.err = 0 <=> Acceptable(source)
    /\ parsed.err = 0
       => /\ parsed.msg.oscTypeTagString
                = SubSeq(source, CommaAhead(source) + 1, TypeTagsEnd(source))
          /\ parsed.msg.arguments
                = SubSeq(source, 4 * (TypeTagsEnd(source) \div 4) + 5, Len(source))

\* C32: message parse acceptance.  OscMessageInitialiseFromCharArray returns
\* non-zero when sourceSize is not a multiple of 4, is below
\* MIN_OSC_MESSAGE_SIZE or above MAX_OSC_MESSAGE_SIZE, when source[0] is not
\* '/', when the address has no null inside the source or is longer than
\* MAX_OSC_ADDRESS_PATTERN_LENGTH, when no ',' follows the address before
\* the end of the source, or when the type tag string is unterminated or
\* longer than MAX_OSC_TYPE_TAG_STRING_LENGTH; in every other case it returns
\* 0 with the type tag string read starting at that comma and the argument
\* region equal to the bytes after the padded type tag string.
C32_MessageParseAcceptance == Parsed => ParseAcceptance(wire.bytes)

\* the same for the sources whose address does not end with a comma
C32_AcceptanceUnlessCommaLast ==
    (Parsed /\ Len(wire.bytes) > 0
            /\ At(wire.bytes, 0) = OscContentsTypeMessage
            /\ At(wire.bytes, AddressEnd(wire.bytes) - 1) # Comma)
    => ParseAcceptance(wire.bytes)

\* the same for the sources that do not start with '/', the empty one
\* included
C32_RefusedWithoutSlash ==
    (Parsed /\ (Len(wire.bytes) = 0 \/ At(wire.bytes, 0) # OscContentsTypeMessage))
    => parsed.err # 0

\* C37: the parsed argument region respects its bound.  For every input on
\* which OscMessageInitialiseFromCharArray copies argument bytes, a short
\* address and type tag string followed by a long payload included,
\* argumentsSize never exceeds MAX_ARGUMENTS_SIZE and no byte is stored at
\* arguments[k] for k >= MAX_ARGUMENTS_SIZE.
C37_ParsedArgumentsBounded ==
    Parsed => argumentsSize(parsed.msg) <= MAX_ARGUMENTS_SIZE

\* the argument region is what the source holds behind the word of the
\* shortest address at most, whatever MAX_ARGUMENTS_SIZE is
C37_ArgumentsWithinSource ==
    (Parsed /\ parsed.err = 0)
    => /\ argumentsSize(parsed.msg) <= Len(wire.bytes) - SizeofOscArgument32
       /\ argumentsSize(parsed.msg) <= MAX_OSC_MESSAGE_SIZE - SizeofOscArgument32

--------------------------------------------------------------------------
(* The SLIP decoder and frames that fill its buffer or are longer.        *)

\* the result of the last of the calls of OscSlipDecoderProcessByte on the
\* bytes, one after the other
RECURSIVE ProcessBytes(_, _)
ProcessBytes(dec, bytes) ==
    LET r == OscSlipDecoderProcessByte(dec, Head(bytes))
    IN  IF Len(bytes) = 1 THEN r ELSE ProcessBytes(r.dec, Tail(bytes))

\* n ordinary bytes
PlainBytes(n) == [i \in 1 .. n |-> LetterA]

\* the frame of a packet of n ordinary bytes
PlainFrame(n) == Append(PlainBytes(n), SLIP_END)

\* the decoder has a handler and has received nothing since the last END
AtBoundary == slip.decoder.processPacket /\ slip.boundary

\* C33: SLIP decode packet capacity.  When a frame un-escapes to more than
\* MAX_OSC_PACKET_SIZE bytes, OscSlipDecoderProcessByte returns non-zero
\* without invoking the handler and without ever storing a byte at packet
\* contents index >= MAX_OSC_PACKET_SIZE; a frame that un-escapes to exactly
\* MAX_OSC_PACKET_SIZE bytes is delivered.
C33_SlipDecodePacketCapacity ==
    AtBoundary
    => LET exact == ProcessBytes(slip.decoder, PlainFrame(MAX_OSC_PACKET_SIZE))
           over == ProcessBytes(slip.decoder, PlainFrame(MAX_OSC_PACKET_SIZE + 1))
       IN  /\ exact.err = 0
           /\ exact.packets = << PlainBytes(MAX_OSC_PACKET_SIZE) >>
           /\ over.err # 0
           /\ over.packets = <<>>

\* what the decoder does with these frames: the packet it hands over holds
\* the bytes received since the index wrapped, and no packet handed over is
\* as long as the buffer
C33_DeliveredShorterThanBuffer ==
    /\ \A i \in 1 .. Len(slip.last.packets) :
            Len(slip.last.packets[i]) < MAX_OSC_PACKET_SIZE
    /\ AtBoundary
       => LET exact == ProcessBytes(slip.decoder, PlainFrame(MAX_OSC_PACKET_SIZE))
              over == ProcessBytes(slip.decoder, PlainFrame(MAX_OSC_PACKET_SIZE + 1))
          IN  /\ exact.err = 0 /\ exact.packets = << <<>> >>
              /\ over.err = 0 /\ over.packets = << PlainBytes(1) >>

\* the packet that a frame without its END un-escapes to; err is 1 when an
\* ESC is followed by neither ESC_END nor ESC_ESC, or by nothing
RECURSIVE Unescaped(_)
Unescaped(bytes) ==
    IF bytes = <<>> THEN [err |-> 0, contents |-> <<>>]
    ELSE IF Head(bytes) # SLIP_ESC
    THEN LET u == Unescaped(Tail(bytes))
         IN  [err |-> u.err, contents |-> <<Head(bytes)>> \o u.contents]
    ELSE IF Len(bytes) = 1 \/ bytes[2] \notin {SLIP_ESC_END, SLIP_ESC_ESC}
    THEN [err |-> 1, contents |-> <<>>]
    ELSE LET u == Unescaped(Tail(Tail(bytes)))
         IN  [err |-> u.err,
              contents |-> << IF bytes[2] = SLIP_ESC_END THEN SLIP_END
                              ELSE SLIP_ESC >> \o u.contents]

\* the greatest index at which the decoding loop of
\* OscSlipDecoderProcessByte reads the buffer; i is the loop index
RECURSIVE SlipDecodeLoopReads(_, _)
SlipDecodeLoopReads(buffer, i) ==
    IF At(buffer, i) = SLIP_END THEN i
    ELSE IF At(buffer, i) # SLIP_ESC THEN SlipDecodeLoopReads(buffer, i + 1)
    ELSE IF At(buffer, i + 1) \in {SLIP_ESC_END, SLIP_ESC_ESC}
    THEN SlipDecodeLoopReads(buffer, i + 2)
    ELSE i + 1

\* the latest call was made on an END
EndReceived == slip.last.err # -1 /\ slip.last.byte = SLIP_END

\* C34: SLIP decoder index wrap.  After any sequence of
\* OscSlipDecoderProcessByte calls bufferIndex is within 0 ..
\* OSC_SLIP_DECODER_BUFFER_SIZE - 1 and is 0 right after every END byte; the
\* index wraps to 0 when it reaches the buffer size, and for a frame longer
\* than the buffer the packet delivered at END is the un-escaping of only the
\* bytes received since the last wrap, with the un-escape scan never reading
\* past the position of the END just stored.
C34_SlipDecoderIndexWrap ==
    /\ slip.decoder.bufferIndex \in 0 .. OSC_SLIP_DECODER_BUFFER_SIZE - 1
    /\ slip.decoder.bufferIndex = Len(SinceWrap)
    /\ EndReceived
       => /\ slip.decoder.bufferIndex = 0
          /\ Len(slip.last.packets) <= 1
          /\ \A i \in 1 .. Len(slip.last.packets) :
                /\ Unescaped(slip.since).err = 0
                /\ slip.last.packets[i] = Unescaped(slip.since).contents
          /\ (slip.decoder.processPacket /\ Unescaped(slip.since).err = 0)
             => slip.last.packets # <<>>
          /\ slip.decoder.processPacket
             => SlipDecodeLoopReads(slip.decoder.buffer, 0) <= Len(slip.since)

\* a frame of 6 bytes or more was received by a decoder with a buffer of
\* fewer bytes, and the handler was given what followed the wrap
C34_TruncatedPacketDelivered ==
    /\ slip.clean
    /\ slip.stream = <<>>
    /\ slip.encoded.size > OSC_SLIP_DECODER_BUFFER_SIZE + 1
    /\ EndReceived
    /\ slip.since # <<>>
    /\ slip.last.packets = << Unescaped(slip.since).contents >>
    /\ slip.last.packets # << slip.packet >>

--------------------------------------------------------------------------
(* The packet visitor: the sizes of the contents it descends into.        *)

\* Whether, in DeconstructContents on oscContents, every recursive call
\* receives contents smaller than those of its caller by the 16 bytes of the
\* bundle header and time tag and the 4 bytes of a size, and every successful
\* element read moves the cursor forward.  With judged FALSE the iteration
\* of a bundle that OscBundleInitialiseFromCharArray rejected is not looked
\* at.
RECURSIVE ContentsShrink(_, _, _)
RECURSIVE ElementsShrink(_, _, _, _)
ContentsShrink(oscContents, unset, judged) ==
    IF Len(oscContents) = 0 \/ At(oscContents, 0) # OscContentsTypeBundle
    THEN TRUE
    ELSE LET r == OscBundleInitialiseFromCharArray(unset.oscBundle, oscContents,
                                                   unset.past)
         IN  (r.err = 0 \/ judged)
             => ElementsShrink(r.bundle, Len(oscContents), unset, judged)
ElementsShrink(oscBundle, contentsSize, unset, judged) ==
    IF ~OscBundleIsBundleElementAvailable(oscBundle) THEN TRUE
    ELSE LET g == OscBundleGetBundleElement(oscBundle)
         IN  IF g.err # 0 THEN TRUE
             ELSE /\ g.bundle.oscBundleElementsIndex > oscBundle.oscBundleElementsIndex
                  /\ g.size + MIN_OSC_BUNDLE_SIZE + SizeofOscArgument32
                        <= contentsSize
                  /\ ContentsShrink(g.contents, unset, judged)
                  /\ DeconstructContents(oscBundle.oscTimeTag, g.contents, unset).err = 0
                     => ElementsShrink(g.bundle, contentsSize, unset, judged)

\* a packet is held and the handler is registered
Visitable ==
    pkt.phase \in {"packet", "received"} /\ pkt.oscPacket.processMessage

\* C35: visitor termination.  OscPacketProcessMessages terminates on every
\* packet of size <= MAX_OSC_PACKET_SIZE with arbitrary byte contents; every
\* recursive DeconstructContents call receives contents strictly smaller
\* than those of its caller (the 16-byte header of the enclosing bundle and
\* the 4-byte size prefix are consumed), and within one bundle the iteration
\* cursor strictly increases on every successful element read.
C35_VisitorTermination ==
    Visitable
    => \A unset \in Unset :
        /\ OscPacketProcessMessages(pkt.oscPacket, unset).err \in {0, 1}
        /\ ContentsShrink(PacketContents, unset, TRUE)

\* the same where every bundle met was accepted by
\* OscBundleInitialiseFromCharArray
C35_ShrinkWhereBundleParsed ==
    Visitable
    => \A unset \in Unset :
        /\ OscPacketProcessMessages(pkt.oscPacket, unset).err \in {0, 1}
        /\ ContentsShrink(PacketContents, unset, FALSE)

====
